---- MODULE Spec2Model ----
(***************************************************************************)
(* Model of datalad's test repository mechanism                            *)
(* (datalad/tests/testrepos/repos.py and items.py).                        *)
(*                                                                         *)
(* A TestRepo_NEW subclass carries a class-level list _item_definitions.   *)
(* Instantiating the class resolves the list entry by entry into Item      *)
(* objects (TestRepo_NEW.__init__), then materializes them in order        *)
(* (TestRepo_NEW.create) and finally computes the root repos.  The model   *)
(* follows consecutive instantiations of one class into different          *)
(* directories: the definition list is a class attribute and is shared by  *)
(* all instantiations.                                                     *)
(*                                                                         *)
(* Paths are sequences of path components.  The relative path '.' is the   *)
(* sequence <<".">>; os.path.normpath drops "." components.  An absent     *)
(* (None) path, string or list parameter is the empty sequence or the      *)
(* empty string, which are exactly the values Python's `not x` treats as   *)
(* absent.  Python's definition index is 0-based: position p of a          *)
(* sequence here is Python index p - 1.                                    *)
(***************************************************************************)
EXTENDS Integers, Sequences, FiniteSets, TLC

\* ------------------------------------------------------------------------
\* Bounds of the model
\* ------------------------------------------------------------------------

\* number of consecutive instantiations of the fixture class
NumBuilds == 2

\* longest definition list that is enumerated entry by entry
MaxLen == 2

\* names of the fresh directories the builds are pointed at
DirNames == <<"d1", "d2", "d3", "d4">>

Builds == 1..NumBuilds

RootDir(b) == <<DirNames[b]>>

\* ------------------------------------------------------------------------
\* Paths
\* ------------------------------------------------------------------------

IsAbs(p) == p # <<>> /\ p[1] \in {DirNames[i] : i \in DOMAIN DirNames}

RECURSIVE normpath(_)
normpath(p) ==
    IF p = <<>> THEN <<>>
    ELSE IF Head(p) = "." THEN normpath(Tail(p))
    ELSE <<Head(p)>> \o normpath(Tail(p))

\* os.path.join: an absolute second argument discards the first
opj(root, p) == IF IsAbs(p) THEN p ELSE root \o p

\* str.startswith on paths, taken component-wise
startswith(p, q) == Len(q) =< Len(p) /\ SubSeq(p, 1, Len(q)) = q

dirname(p) == IF p = <<>> THEN <<>> ELSE SubSeq(p, 1, Len(p) - 1)

\* ------------------------------------------------------------------------
\* File status constants (ItemFile.UNTRACKED ...)
\* ------------------------------------------------------------------------

UNTRACKED == "?"
UNMODIFIED == " "
MODIFIED == "M"
ADDED == "A"
DELETED == "D"
RENAMED == "R"
COPIED == "C"
TYPECHANGED == "T"
UPDATED_BUT_UNMERGED == "U"

States == {UNTRACKED, UNMODIFIED, MODIFIED, ADDED, DELETED, RENAMED, COPIED,
           TYPECHANGED, UPDATED_BUT_UNMERGED}

\* ------------------------------------------------------------------------
\* Item classes
\* ------------------------------------------------------------------------

RepoClasses == {"ItemRepo", "ItemSelf"}
FileClasses == {"ItemFile", "ItemInfoFile"}
CommandClasses == {"ItemCommand", "ItemCommit", "ItemDropFile"}
ItemClasses == RepoClasses \cup FileClasses \cup CommandClasses

IsItemRepo(cls) == cls \in RepoClasses
IsItemFile(cls) == cls \in FileClasses
IsItemCommand(cls) == cls \in CommandClasses

default_path == <<"INFO.txt">>

\* ------------------------------------------------------------------------
\* References: a path string of the definition, or an Item object
\* ------------------------------------------------------------------------

PathRef(p) == [isobj |-> FALSE, p |-> p, b |-> 0, i |-> 0]
ObjRef(b, i) == [isobj |-> TRUE, p |-> <<>>, b |-> b, i |-> i]
NoRef == [isobj |-> FALSE, p |-> <<>>, b |-> 0, i |-> 0]

\* ------------------------------------------------------------------------
\* Definition entries: (class, kwargs).  Absent kwargs carry the default of
\* the class's constructor.
\* ------------------------------------------------------------------------

BlankEntry ==
    [cls |-> "ItemRepo", isdict |-> TRUE,
     path |-> <<>>, cwd |-> <<>>, repo |-> <<>>, item |-> <<>>,
     runner |-> 0, bound |-> FALSE,
     src |-> "", annex |-> TRUE, annex_version |-> 0,
     annex_direct |-> "None", annex_init |-> "None",
     content |-> "", state |-> <<UNMODIFIED, UNMODIFIED>>, commit_msg |-> "",
     annexed |-> FALSE, key |-> "", locked |-> "None",
     msg |-> ""]

ERepo(cls, p, annex) ==
    [BlankEntry EXCEPT !.cls = cls, !.path = p, !.annex = annex]

EFile(p, repo, content, st, annexed) ==
    [BlankEntry EXCEPT !.cls = "ItemFile", !.path = p,
                       !.repo = IF repo = <<>> THEN <<>> ELSE <<PathRef(repo)>>,
                       !.content = content, !.state = st,
                       !.annexed = annexed]

EInfo(repo, st) ==
    [BlankEntry EXCEPT !.cls = "ItemInfoFile",
                       !.repo = IF repo = <<>> THEN <<>> ELSE <<PathRef(repo)>>,
                       !.state = st]

ECmd(cls, cwd, repo, items, msg) ==
    [BlankEntry EXCEPT !.cls = cls, !.cwd = cwd,
                       !.repo = IF repo = <<>> THEN <<>> ELSE <<PathRef(repo)>>,
                       !.item = [j \in DOMAIN items |-> PathRef(items[j])],
                       !.msg = msg]

Dot == <<".">>

\* ------------------------------------------------------------------------
\* Errors.  index is Python's 0-based index of the entry, -1 when the
\* exception carries none.  key is the reference or path the message
\* names (the `it` / `p` format arguments), NoRef when it names none.
\* ------------------------------------------------------------------------

NoErr == [kind |-> "none", index |-> -1, item |-> "", key |-> NoRef,
          msg |-> ""]

Err(kind, index, item, key, msg) ==
    [kind |-> kind, index |-> index, item |-> item, key |-> key, msg |-> msg]

DefinitionError == "InvalidTestRepoDefinitionError"
CreationError == "TestRepoCreationError"

\* ------------------------------------------------------------------------
\* Item objects
\* ------------------------------------------------------------------------

BlankItem ==
    [cls |-> "ItemRepo", path |-> <<>>, runner |-> 0,
     src |-> "", annex |-> FALSE, annex_version |-> 0,
     annex_direct |-> FALSE, annex_init |-> FALSE,
     items |-> {}, commits |-> {}, branches |-> {}, remotes |-> {},
     super |-> 0,
     repo |-> 0, content |-> "", state_index |-> "", state_worktree |-> "",
     commit_msg |-> "", locked |-> "None", annexed |-> FALSE, key |-> "",
     content_present |-> "None",
     ref_items |-> <<>>, cwd |-> <<>>]

\* an annex that is not to be initialized needs no clone source
RepoInitError_SourceUnchecked(e, cf) ==
    IF cf.version >= 6 /\ cf.direct
        THEN "Invalid datalad configuration"
    ELSE IF e.annex_version # 0 /\ e.annex_version # cf.version
        THEN "annex_version conflicts with configuration"
    ELSE IF e.annex_direct # "None" /\ cf.direct # (e.annex_direct = "True")
        THEN "annex_direct conflicts with configuration"
    ELSE IF ~e.annex /\ (e.annex_version # 0 \/ e.annex_direct = "True"
                         \/ e.annex_init = "True")
        THEN "annex parameters while annex wasn't True"
    ELSE IF e.annex /\ e.annex_version # 0 /\ e.annex_direct = "True"
            /\ e.annex_version >= 6
        THEN "no direct mode with version 6"
    ELSE IF e.annex_init = "False"
            /\ (e.annex_version # 0 \/ e.annex_direct = "True")
        THEN "annex parameters while annex_init wasn't True"
    ELSE ""

\* the configuration is not checked for direct mode with version 6
RepoInitError_ConfigUnchecked(e, cf) ==
    IF e.annex_version # 0 /\ e.annex_version # cf.version
        THEN "annex_version conflicts with configuration"
    ELSE IF e.annex_direct # "None" /\ cf.direct # (e.annex_direct = "True")
        THEN "annex_direct conflicts with configuration"
    ELSE IF ~e.annex /\ (e.annex_version # 0 \/ e.annex_direct = "True"
                         \/ e.annex_init = "True")
        THEN "annex parameters while annex wasn't True"
    ELSE IF e.annex /\ e.annex_init = "False" /\ e.src = ""
        THEN "non-initialized annex must be created by cloning"
    ELSE IF e.annex /\ e.annex_version # 0 /\ e.annex_direct = "True"
            /\ e.annex_version >= 6
        THEN "no direct mode with version 6"
    ELSE IF e.annex_init = "False"
            /\ (e.annex_version # 0 \/ e.annex_direct = "True")
        THEN "annex parameters while annex_init wasn't True"
    ELSE ""

\* ItemRepo.__init__: the message of the definition error it raises, or ""
RepoInitError(e, cf) ==
    IF cf.version >= 6 /\ cf.direct
        THEN "Invalid datalad configuration"
    ELSE IF e.annex_version # 0 /\ e.annex_version # cf.version
        THEN "annex_version conflicts with configuration"
    ELSE IF e.annex_direct # "None" /\ cf.direct # (e.annex_direct = "True")
        THEN "annex_direct conflicts with configuration"
    ELSE IF ~e.annex /\ (e.annex_version # 0 \/ e.annex_direct = "True"
                         \/ e.annex_init = "True")
        THEN "annex parameters while annex wasn't True"
    ELSE IF e.annex /\ e.annex_init = "False" /\ e.src = ""
        THEN "non-initialized annex must be created by cloning"
    ELSE IF e.annex /\ e.annex_version # 0 /\ e.annex_direct = "True"
            /\ e.annex_version >= 6
        THEN "no direct mode with version 6"
    ELSE IF e.annex_init = "False"
            /\ (e.annex_version # 0 \/ e.annex_direct = "True")
        THEN "annex parameters while annex_init wasn't True"
    ELSE ""

\* the annex fields are kept as computed, with or without annex
RepoObject_Unmasked(e, cf) ==
    LET annex_init == IF e.annex /\ e.annex_init = "None" THEN TRUE
                      ELSE e.annex_init = "True"
        annex_version == IF e.annex_version = 0 THEN cf.version
                         ELSE e.annex_version
        annex_direct == IF e.annex_direct = "None" THEN cf.direct
                        ELSE e.annex_direct = "True"
    IN [BlankItem EXCEPT
            !.cls = e.cls, !.path = e.path, !.runner = e.runner,
            !.src = e.src, !.annex = e.annex,
            !.annex_version = annex_version,
            !.annex_direct = annex_direct,
            !.annex_init = annex_init]

\* ItemRepo.__init__: the object of a valid definition
RepoObject(e, cf) ==
    LET annex_init == IF e.annex /\ e.annex_init = "None" THEN TRUE
                      ELSE e.annex_init = "True"
        annex_version == IF e.annex_version = 0 THEN cf.version
                         ELSE e.annex_version
        annex_direct == IF e.annex_direct = "None" THEN cf.direct
                        ELSE e.annex_direct = "True"
    IN [BlankItem EXCEPT
            !.cls = e.cls, !.path = e.path, !.runner = e.runner,
            !.src = e.src, !.annex = e.annex,
            !.annex_version = IF e.annex THEN annex_version ELSE 0,
            !.annex_direct = IF e.annex THEN annex_direct ELSE FALSE,
            !.annex_init = IF e.annex THEN annex_init ELSE FALSE]

Clean == <<UNMODIFIED, UNMODIFIED>>

\* ItemInfoFile.__init__: defaults applied before ItemFile.__init__ runs
InfoDefaults(e) ==
    [e EXCEPT !.content = IF e.content = "" THEN "info" ELSE e.content,
              !.commit_msg = IF e.commit_msg = "" /\ e.state = Clean
                             THEN "Added ItemInfoFile" ELSE e.commit_msg]

\* src and content may be given together
FileInitError_BothAllowed(e, repopath) ==
    IF ~startswith(e.path, repopath)
        THEN "path is not beneath the path of repo"
    ELSE IF e.src = "" /\ e.content = ""
        THEN "neither src nor content"
    ELSE IF e.commit_msg # "" /\ e.state # Clean
        THEN "commit_msg but state doesn't suggest to commit"
    ELSE IF ~e.annexed /\ (e.src # "" \/ e.locked # "None" \/ e.key # "")
        THEN "invalid when annexed is False"
    ELSE IF e.src # "" /\ e.state # <<ADDED, UNMODIFIED>>
        THEN "src but state doesn't suggest to annex-addurl"
    ELSE ""

\* a commit message is accepted with any status pair
FileInitError_MessageAnyState(e, repopath) ==
    IF ~startswith(e.path, repopath)
        THEN "path is not beneath the path of repo"
    ELSE IF e.src # "" /\ e.content # ""
        THEN "src and content are mutually exclusive"
    ELSE IF e.src = "" /\ e.content = ""
        THEN "neither src nor content"
    ELSE IF ~e.annexed /\ (e.src # "" \/ e.locked # "None" \/ e.key # "")
        THEN "invalid when annexed is False"
    ELSE IF e.src # "" /\ e.state # <<ADDED, UNMODIFIED>>
        THEN "src but state doesn't suggest to annex-addurl"
    ELSE ""

\* only a lock flag of True counts as given
FileInitError_LockFalseAllowed(e, repopath) ==
    IF ~startswith(e.path, repopath)
        THEN "path is not beneath the path of repo"
    ELSE IF e.src # "" /\ e.content # ""
        THEN "src and content are mutually exclusive"
    ELSE IF e.src = "" /\ e.content = ""
        THEN "neither src nor content"
    ELSE IF e.commit_msg # "" /\ e.state # Clean
        THEN "commit_msg but state doesn't suggest to commit"
    ELSE IF ~e.annexed /\ (e.src # "" \/ e.locked = "True" \/ e.key # "")
        THEN "invalid when annexed is False"
    ELSE IF e.src # "" /\ e.state # <<ADDED, UNMODIFIED>>
        THEN "src but state doesn't suggest to annex-addurl"
    ELSE ""

\* a source-URL is accepted with any status pair
FileInitError_SourceAnyState(e, repopath) ==
    IF ~startswith(e.path, repopath)
        THEN "path is not beneath the path of repo"
    ELSE IF e.src # "" /\ e.content # ""
        THEN "src and content are mutually exclusive"
    ELSE IF e.src = "" /\ e.content = ""
        THEN "neither src nor content"
    ELSE IF e.commit_msg # "" /\ e.state # Clean
        THEN "commit_msg but state doesn't suggest to commit"
    ELSE IF ~e.annexed /\ (e.src # "" \/ e.locked # "None" \/ e.key # "")
        THEN "invalid when annexed is False"
    ELSE ""

\* ItemFile.__init__: the message of the definition error it raises, or "".
\* repopath is the path of the object passed as `repo`.
FileInitError(e, repopath) ==
    IF ~startswith(e.path, repopath)
        THEN "path is not beneath the path of repo"
    ELSE IF e.src # "" /\ e.content # ""
        THEN "src and content are mutually exclusive"
    ELSE IF e.src = "" /\ e.content = ""
        THEN "neither src nor content"
    ELSE IF e.commit_msg # "" /\ e.state # Clean
        THEN "commit_msg but state doesn't suggest to commit"
    ELSE IF ~e.annexed /\ (e.src # "" \/ e.locked # "None" \/ e.key # "")
        THEN "invalid when annexed is False"
    ELSE IF e.src # "" /\ e.state # <<ADDED, UNMODIFIED>>
        THEN "src but state doesn't suggest to annex-addurl"
    ELSE ""

\* ItemFile.__init__: the object of a valid definition
FileObject(e, repo) ==
    [BlankItem EXCEPT
        !.cls = e.cls, !.path = e.path, !.runner = e.runner,
        !.repo = repo, !.content = e.content,
        !.state_index = e.state[1], !.state_worktree = e.state[2],
        !.commit_msg = e.commit_msg, !.src = e.src, !.locked = e.locked,
        !.annexed = e.annexed, !.key = e.key,
        !.commits = {}, !.content_present = "None"]

\* the working directory is kept as given, also when none was given
CommandObject_CwdKept(e, repo, repopath) ==
    [BlankItem EXCEPT
        !.cls = e.cls,
        !.path = e.cwd,
        !.cwd = e.cwd,
        !.runner = e.runner, !.repo = repo,
        !.ref_items = [j \in DOMAIN e.item |-> e.item[j].i],
        !.commit_msg = IF e.cls # "ItemCommit" THEN ""
                       ELSE IF e.msg = "" THEN "ItemCommit: Committed"
                       ELSE e.msg]

\* ItemCommand.__init__ (reached through the subclasses' constructors)
CommandObject(e, repo, repopath) ==
    [BlankItem EXCEPT
        !.cls = e.cls,
        !.path = IF e.cwd = <<>> THEN repopath ELSE e.cwd,
        !.cwd = IF e.cwd = <<>> THEN repopath ELSE e.cwd,
        !.runner = e.runner, !.repo = repo,
        !.ref_items = [j \in DOMAIN e.item |-> e.item[j].i],
        !.commit_msg = IF e.cls # "ItemCommit" THEN ""
                       ELSE IF e.msg = "" THEN "ItemCommit: Committed"
                       ELSE e.msg]

\* item[0](**item[1]): the constructor call of the resolution loop.  exec
\* is the execution list built so far; the 'repo' and 'item' parameters
\* hold objects by now.  Yields the error raised or the object constructed.
Construct(e, exec, cf, idx) ==
    LET repo == IF e.repo = <<>> THEN 0 ELSE e.repo[1].i
        repopath == IF repo = 0 THEN <<>> ELSE exec[repo].path
        derr(m) == [err |-> Err(DefinitionError, idx, e.cls, NoRef, m),
                    obj |-> BlankItem]
        pyerr(k) == [err |-> Err(k, -1, "", NoRef, ""), obj |-> BlankItem]
        ok(o) == [err |-> NoErr, obj |-> o]
    IN  IF IsItemRepo(e.cls) THEN
            IF RepoInitError(e, cf) # "" THEN derr(RepoInitError(e, cf))
            ELSE ok(RepoObject(e, cf))
        ELSE IF IsItemFile(e.cls) THEN
            LET f == IF e.cls = "ItemInfoFile" THEN InfoDefaults(e) ELSE e
            IN  IF FileInitError(f, repopath) # ""
                    THEN derr(FileInitError(f, repopath))
                ELSE ok(FileObject(f, repo))
        ELSE IF e.cls = "ItemCommand" THEN
            \* `cwd = repo.path` with repo None
            IF e.cwd = <<>> /\ repo = 0 THEN pyerr("AttributeError")
            ELSE ok(CommandObject(e, repo, repopath))
        ELSE IF repo = 0 THEN
            derr("Parameter 'repo' is required")
        ELSE IF e.cls = "ItemDropFile"
                /\ ~(IsItemRepo(exec[repo].cls) /\ exec[repo].annex) THEN
            \* the message's format string names {p}, which is not passed
            pyerr("KeyError")
        ELSE ok(CommandObject(e, repo, repopath))

\* ------------------------------------------------------------------------
\* TestRepo_NEW.__init__: resolution of one definition entry
\* ------------------------------------------------------------------------

\* _path2item: converts the references held by one keyword.  refs is the
\* value of the keyword as a list (assure_list), index the function
\* self._items from path keys to positions of the execution list.  The
\* keyword is emptied first and filled reference by reference, so a failure
\* leaves the references converted so far in the definition.
Unresolved(refs, index) ==
    {j \in DOMAIN refs : refs[j].isobj \/ refs[j].p \notin DOMAIN index}

FirstUnresolved(refs, index) ==
    CHOOSE j \in Unresolved(refs, index) :
        \A k \in Unresolved(refs, index) : j =< k

\* names the first reference of the list, not the one that failed
_path2item_FirstNamed(refs, index, b) ==
    IF Unresolved(refs, index) = {}
        THEN [val |-> [j \in DOMAIN refs |-> ObjRef(b, index[refs[j].p])],
              bad |-> NoRef]
    ELSE LET n == FirstUnresolved(refs, index)
         IN  [val |-> [j \in 1..(n - 1) |-> ObjRef(b, index[refs[j].p])],
              bad |-> refs[1]]

_path2item(refs, index, b) ==
    IF Unresolved(refs, index) = {}
        THEN [val |-> [j \in DOMAIN refs |-> ObjRef(b, index[refs[j].p])],
              bad |-> NoRef]
    ELSE LET n == FirstUnresolved(refs, index)
         IN  [val |-> [j \in 1..(n - 1) |-> ObjRef(b, index[refs[j].p])],
              bad |-> refs[n]]

\* Outcome of one pass of the loop body up to and including the
\* constructor call: the entry as the pass leaves it in the definition
\* list, the error raised (NoErr if none), the object constructed and the
\* key `r_path` it is indexed under.
Outcome(e, err, obj, r_path) ==
    [e |-> e, err |-> err, obj |-> obj, r_path |-> r_path]

ResolveCommand(e0, exec, index, b, cf, idx) ==
    LET root == RootDir(b)
        r_cwd == e0.cwd
        it_repo == e0.repo
        repo_by_cwd == IF r_cwd \in DOMAIN index THEN index[r_cwd] ELSE 0
        derive == it_repo = <<>> /\ repo_by_cwd # 0
                  /\ IsItemRepo(exec[repo_by_cwd].cls)
        e1 == IF derive THEN [e0 EXCEPT !.repo = <<PathRef(r_cwd)>>] ELSE e0
        e2 == IF r_cwd # <<>>
                 THEN [e1 EXCEPT !.cwd = normpath(opj(root, r_cwd))] ELSE e1
        pr == _path2item(e2.repo, index, b)
        e3 == [e2 EXCEPT !.repo = pr.val]
        pi == _path2item(e3.item, index, b)
        e4 == [e3 EXCEPT !.item = pi.val]
        c == Construct(e4, exec, cf, idx)
    IN  IF r_cwd = <<>> /\ it_repo = <<>> THEN
            Outcome(e0, Err(DefinitionError, idx, e0.cls, NoRef,
                            "Neither 'cwd' nor 'repo' was specified"),
                    BlankItem, <<>>)
        ELSE IF pr.bad # NoRef THEN
            Outcome(e3, Err(DefinitionError, idx, e0.cls, pr.bad,
                            "referenced before definition"),
                    BlankItem, <<>>)
        ELSE IF pi.bad # NoRef THEN
            Outcome(e4, Err(DefinitionError, idx, e0.cls, pi.bad,
                            "referenced before definition"),
                    BlankItem, <<>>)
        ELSE Outcome(e4, c.err, c.obj, <<>>)

\* `r_path`: the 'path' argument, defaulted for ItemInfoFile only
DeclaredKey(e) ==
    IF e.path # <<>> THEN e.path
    ELSE IF e.cls = "ItemInfoFile" THEN default_path
    ELSE <<>>

\* the check for a path key in use is left out
AlreadyDeclared_Never(r_path, index) == FALSE

\* `if r_path in self._items`: the path key is in use
AlreadyDeclared(r_path, index) == r_path \in DOMAIN index

ResolveRepoOrFile(e0, exec, index, b, cf, idx) ==
    LET root == RootDir(b)
        r_path == DeclaredKey(e0)
        e1 == [e0 EXCEPT !.path = normpath(opj(root, r_path))]
        pr == _path2item(e1.repo, index, b)
        e2 == [e1 EXCEPT !.repo = pr.val]
        e3 == IF e2.cls = "ItemInfoFile" THEN [e2 EXCEPT !.bound = TRUE]
              ELSE e2
        c == Construct(e3, exec, cf, idx)
    IN  IF r_path = <<>> THEN
            Outcome(e0, Err(DefinitionError, idx, e0.cls, NoRef,
                            "Missing argument 'path'"),
                    BlankItem, <<>>)
        ELSE IF AlreadyDeclared(r_path, index) THEN
            Outcome(e0, Err(DefinitionError, idx, e0.cls, PathRef(r_path),
                            "Ambiguous definition"),
                    BlankItem, r_path)
        ELSE IF ~IsItemFile(e0.cls) THEN
            Outcome(e1, c.err, c.obj, r_path)
        ELSE IF e1.repo = <<>> THEN
            \* the message's format string names {ls}, which is not passed
            Outcome(e1, Err("KeyError", -1, "", NoRef, ""), BlankItem, r_path)
        ELSE IF pr.bad # NoRef THEN
            Outcome(e2, Err(DefinitionError, idx, e0.cls, pr.bad,
                            "referenced before definition"),
                    BlankItem, r_path)
        ELSE Outcome(e3, c.err, c.obj, r_path)

\* the loop body for the entry at Python index idx
ResolveEntry(e, exec, index, b, cf, idx) ==
    LET e0 == IF e.runner = 0 THEN [e EXCEPT !.runner = b] ELSE e
    IN  IF ~(e.cls \in ItemClasses /\ e.isdict) THEN
            Outcome(e, Err(DefinitionError, idx, e.cls, NoRef,
                           "Malformed definition entry"),
                    BlankItem, <<>>)
        ELSE IF IsItemCommand(e.cls) THEN
            ResolveCommand(e0, exec, index, b, cf, idx)
        ELSE ResolveRepoOrFile(e0, exec, index, b, cf, idx)

\* ------------------------------------------------------------------------
\* Derived file status (ItemFile properties)
\* ------------------------------------------------------------------------

is_untracked(f) ==
    f.state_index = UNTRACKED /\ f.state_worktree = UNTRACKED

\* TYPECHANGED is not taken for a staged change
is_staged_NoTypechange(f) ==
    f.state_index \in {MODIFIED, ADDED, DELETED, RENAMED, COPIED}
    /\ f.state_worktree = UNMODIFIED

is_staged(f) ==
    f.state_index \in {MODIFIED, ADDED, DELETED, RENAMED, COPIED, TYPECHANGED}
    /\ f.state_worktree = UNMODIFIED

is_modified(f) ==
    f.state_index = MODIFIED \/ f.state_worktree = MODIFIED

is_clean(f) ==
    f.state_index = UNMODIFIED /\ f.state_worktree = UNMODIFIED

\* "True"/"False"/"None" as the properties return them
is_locked(f) == f.locked

is_unlocked(f) ==
    IF f.locked = "None" THEN "None"
    ELSE IF f.locked = "True" THEN "False" ELSE "True"

\* ------------------------------------------------------------------------
\* The external tool and the filesystem
\* ------------------------------------------------------------------------

\* The invocation of the external tool that fails during one create(), or
\* "none".  Every invocation blocks and either succeeds or raises the
\* error the caller passed to _excute_by_item.
ToolFailures == {"none", "init", "annex init", "annex direct", "add",
                 "lookupkey", "unlock", "commit", "last commit", "branch",
                 "cmd"}

\* number of branches the tool reports as containing a commit
BranchCounts == {1, 2}

\* os.makedirs: the directory and all missing parents
makedirs(dirs, p) == dirs \cup {SubSeq(p, 1, n) : n \in 1..Len(p)}

\* os.listdir(p) is not empty
NotEmpty(d, p) ==
    \/ p \in d.gits
    \/ \E q \in d.dirs \cup d.files : Len(q) > Len(p) /\ startswith(q, p)

\* State a create() works on: the execution list, the disk, the number of
\* commits made so far (the next commit's SHA), the error raised, whether
\* create() returned, and the number of branches that
\* _get_branch_from_commit returned (0: it was not called or it failed).
CState(ex, disk, sha) ==
    [ex |-> ex, disk |-> disk, sha |-> sha, err |-> NoErr, ret |-> FALSE,
     found |-> 0, issued |-> <<>>]

Halted(s) == s.err # NoErr \/ s.ret

Raise(s, kind, cls, msg) ==
    [s EXCEPT !.err = Err(kind, -1, cls, NoRef, msg)]

\* _get_last_commit_from_disc: the (SHA, message) pair of the commit the
\* tool just made; msg is the message the commit command was built with
_get_last_commit_from_disc(s, msg) == <<s.sha + 1, msg>>

\* ItemRepo.create: make sure the directory exists and is empty
RepoDirectory(s, k) ==
    LET o == s.ex[k]
    IN  IF o.path \notin s.disk.dirs \cup s.disk.files
            THEN IF \E n \in 1..(Len(o.path) - 1) :
                        SubSeq(o.path, 1, n) \in s.disk.files
                     THEN Raise(s, "OSError", "", "")
                 ELSE [s EXCEPT !.disk.dirs = makedirs(@, o.path)]
        ELSE IF o.path \notin s.disk.dirs
            THEN Raise(s, CreationError, o.cls, "not a directory")
        ELSE IF NotEmpty(s.disk, o.path)
            THEN Raise(s, CreationError, o.cls, "not empty")
        ELSE s

\* ItemRepo.create: git init or git clone
RepoInit(s, k, fail) ==
    LET o == s.ex[k]
    IN  IF Halted(s) THEN s
        ELSE IF fail = "init"
            THEN Raise(s, CreationError, "", "Failed to create git repository")
        ELSE [s EXCEPT !.disk.gits = @ \cup {o.path},
                       !.disk.remotes =
                           IF o.src # ""
                           THEN @ \cup {<<o.path, "origin", o.src>>}
                           ELSE @,
                       !.ex[k].remotes =
                           IF o.src # "" THEN @ \cup {<<"origin", o.src>>}
                           ELSE @]

\* ItemRepo.create: git annex init
RepoAnnexInit(s, k, fail) ==
    LET o == s.ex[k]
    IN  IF Halted(s) \/ ~(o.annex /\ o.annex_init) THEN s
        ELSE IF fail = "annex init"
            THEN Raise(s, CreationError, "", "Failed to initialize annex")
        ELSE [s EXCEPT !.disk.branches = @ \cup {<<o.path, "git-annex">>},
                       !.ex[k].branches = @ \cup {"git-annex"}]

\* ItemRepo.create: git annex direct
RepoDirect(s, k, fail) ==
    LET o == s.ex[k]
    IN  IF Halted(s) \/ ~(o.annex /\ o.annex_init /\ o.annex_direct) THEN s
        ELSE IF fail = "annex direct"
            THEN Raise(s, CreationError, "", "Failed to switch to direct mode")
        ELSE [s EXCEPT !.disk.branches =
                           @ \cup {<<o.path, "annex/direct/master">>},
                       !.ex[k].branches = @ \cup {"annex/direct/master"}]

\* ItemRepo.create
RepoCreate(s0, k, fail) ==
    RepoDirect(RepoAnnexInit(RepoInit(RepoDirectory(s0, k), k, fail),
                             k, fail),
               k, fail)

\* the first branch returned is taken, however many there are
RecordBranch_FirstBranch(s, k, fail, nb) ==
    LET o == s.ex[k]
    IN  IF Halted(s) THEN s
        ELSE IF fail = "branch"
            THEN Raise(s, CreationError, "", "Failed to look up branch")
        ELSE IF ~IsItemRepo(s.ex[o.repo].cls)
            THEN Raise([s EXCEPT !.found = nb], "AttributeError", "", "")
        ELSE [s EXCEPT !.found = nb,
                       !.ex[o.repo].branches = @ \cup {"master"}]

\* commit bookkeeping shared by ItemFile.create and ItemCommit.create:
\* look up the branch of the commit and tell the repo
RecordBranch(s, k, fail, nb) ==
    LET o == s.ex[k]
    IN  IF Halted(s) THEN s
        ELSE IF fail = "branch"
            THEN Raise(s, CreationError, "", "Failed to look up branch")
        ELSE IF nb > 1
            THEN Raise([s EXCEPT !.found = nb], CreationError, o.cls,
                       "Unexpectedly found commit in multiple branches")
        ELSE IF ~IsItemRepo(s.ex[o.repo].cls)
            THEN Raise([s EXCEPT !.found = nb], "AttributeError", "", "")
        ELSE [s EXCEPT !.found = nb,
                       !.ex[o.repo].branches = @ \cup {"master"}]

\* a file whose path exists is taken as created
FileWrite_SkipExisting(s, k) ==
    LET o == s.ex[k]
    IN  IF o.path \in s.disk.dirs \cup s.disk.files
            THEN [s EXCEPT !.ret = TRUE]
        ELSE IF o.content = "" THEN s
        ELSE IF dirname(o.path) \notin s.disk.dirs
            THEN Raise(s, CreationError, o.cls,
                       "exception occurred while trying to write")
        ELSE [s EXCEPT !.disk.files = @ \cup {o.path},
                       !.disk.data = @ \cup {<<o.path, o.content>>}]

\* ItemFile.create: write the content unless the path exists
FileWrite(s, k) ==
    LET o == s.ex[k]
    IN  IF o.path \in s.disk.dirs \cup s.disk.files
            THEN Raise(s, CreationError, o.cls, "already exists")
        ELSE IF o.content = "" THEN s
        ELSE IF dirname(o.path) \notin s.disk.dirs
            THEN Raise(s, CreationError, o.cls,
                       "exception occurred while trying to write")
        ELSE [s EXCEPT !.disk.files = @ \cup {o.path},
                       !.disk.data = @ \cup {<<o.path, o.content>>}]

\* the file is not added to the items of its repo
FileRegister_Forgotten(s, k) == s

\* ItemFile.create: self._repo._items.add(self)
FileRegister(s, k) ==
    LET o == s.ex[k]
    IN  IF Halted(s) THEN s
        ELSE IF ~IsItemRepo(s.ex[o.repo].cls)
            THEN Raise(s, "AttributeError", "", "")
        ELSE [s EXCEPT !.ex[o.repo].items = @ \cup {k}]

to_add(o) ==
    (o.state_index = ADDED /\ o.state_worktree = UNMODIFIED) \/ is_clean(o)

\* staged files are committed as well
to_commit_Staged(o) == to_add(o)

to_commit(o) == is_clean(o)

\* the content `git annex addurl` downloads from a URL
Downloaded(src) == "content of " \o src

\* open(path, 'r').read(): the contents readable at a path
ReadFile(d, p) == {c[2] : c \in {x \in d.data : x[1] = p}}

\* ItemFile.create: add_cmd, the command that adds the file
add_cmd(o) ==
    IF o.annexed
    THEN IF o.src # "" THEN "annex addurl" ELSE "annex add"
    ELSE "git add"

\* the file that was added is marked as added in the index
FileAdd_MarksAdded(s, k, fail) ==
    LET o == s.ex[k]
    IN  IF Halted(s) THEN s
        ELSE IF is_untracked(o) THEN [s EXCEPT !.ret = TRUE]
        ELSE IF ~to_add(o)
            THEN Raise(s, DefinitionError, o.cls,
                       "invalid as initial definition")
        ELSE IF fail = "add"
            THEN Raise(s, CreationError, "", "Failed to add")
        ELSE [s EXCEPT
                !.disk.files = IF o.annexed /\ o.src # ""
                               THEN @ \cup {o.path} ELSE @,
                !.disk.data = IF o.annexed /\ o.src # ""
                              THEN @ \cup {<<o.path, Downloaded(o.src)>>}
                              ELSE @,
                !.ex[k].state_index = ADDED,
                !.ex[k].content_present = IF o.annexed THEN "True" ELSE @]

\* ItemFile.create: decide on the declared state, then add
FileAdd(s, k, fail) ==
    LET o == s.ex[k]
    IN  IF Halted(s) THEN s
        ELSE IF is_untracked(o) THEN [s EXCEPT !.ret = TRUE]
        ELSE IF ~to_add(o)
            THEN Raise(s, DefinitionError, o.cls,
                       "invalid as initial definition")
        ELSE IF fail = "add"
            THEN Raise([s EXCEPT !.issued = Append(@, add_cmd(o))],
                       CreationError, "", "Failed to add")
        ELSE [s EXCEPT
                !.issued = Append(@, add_cmd(o)),
                !.disk.files = IF o.annexed /\ o.src # ""
                               THEN @ \cup {o.path} ELSE @,
                !.disk.data = IF o.annexed /\ o.src # ""
                              THEN @ \cup {<<o.path, Downloaded(o.src)>>}
                              ELSE @,
                !.ex[k].content_present = IF o.annexed THEN "True" ELSE @]

\* ItemFile.create: look up the annex key, read addurl'd content
FileKey(s, k, fail) ==
    LET o == s.ex[k]
    IN  IF Halted(s) \/ ~o.annexed THEN s
        ELSE IF o.key = "" /\ fail = "lookupkey"
            THEN Raise(s, CreationError, "", "Failed to look up annex key")
        ELSE [s EXCEPT
                !.ex[k].key = IF o.key = "" THEN "key from disc" ELSE @,
                !.ex[k].content =
                    IF o.src # "" THEN CHOOSE c \in ReadFile(s.disk, o.path) : TRUE
                    ELSE @]

\* ItemFile.create: unlock
FileUnlock(s, k, fail) ==
    LET o == s.ex[k]
    IN  IF Halted(s) \/ is_unlocked(o) # "True" THEN s
        ELSE IF fail = "unlock"
            THEN Raise([s EXCEPT !.issued = Append(@, "annex unlock")],
                       CreationError, "", "Failed to unlock")
        ELSE [s EXCEPT !.issued = Append(@, "annex unlock")]

\* no default takes the place of a commit message that was not given
FileCommitMsg_NoDefault(s, k) == s

\* ItemFile.create: the default commit message
FileCommitMsg(s, k) ==
    LET o == s.ex[k]
    IN  IF Halted(s) \/ ~to_commit(o) \/ o.commit_msg # "" THEN s
        ELSE [s EXCEPT !.ex[k].commit_msg = "ItemFile: Added file"]

\* ItemFile.create: commit and record the commit
FileCommit(s, k, fail) ==
    LET o == s.ex[k]
        commit == _get_last_commit_from_disc(s, o.commit_msg)
    IN  IF Halted(s) \/ ~to_commit(o) THEN s
        ELSE IF fail = "commit"
            THEN Raise([s EXCEPT !.issued = Append(@, "commit")],
                       CreationError, "", "Failed to commit")
        ELSE IF fail = "last commit"
            THEN Raise([s EXCEPT !.sha = @ + 1,
                                 !.issued = Append(@, "commit")],
                       CreationError, "", "Failed to look up commit SHA")
        ELSE [s EXCEPT !.sha = @ + 1,
                       !.issued = Append(@, "commit"),
                       !.disk.branches =
                           @ \cup {<<s.ex[o.repo].path, "master">>},
                       !.ex[k].commits = @ \cup {commit},
                       !.ex[o.repo].commits = @ \cup {commit}]

\* ItemFile.create: the branch of the commit
FileBranch(s, k, fail, nb) ==
    IF Halted(s) \/ ~to_commit(s.ex[k]) THEN s
    ELSE RecordBranch(s, k, fail, nb)

\* the file is unlocked after it was committed
FileCreate_UnlockLast(s0, k, fail, nb) ==
    FileBranch(
        FileUnlock(
            FileCommit(
                FileCommitMsg(
                    FileKey(
                        FileAdd(FileRegister(FileWrite(s0, k), k), k, fail),
                        k, fail),
                    k),
                k, fail),
            k, fail),
        k, fail, nb)

\* ItemFile.create
FileCreate(s0, k, fail, nb) ==
    FileBranch(
        FileCommit(
            FileCommitMsg(
                FileUnlock(
                    FileKey(
                        FileAdd(FileRegister(FileWrite(s0, k), k), k, fail),
                        k, fail),
                    k, fail),
                k),
            k, fail),
        k, fail, nb)

\* ItemCommand.create: runs the command
CommandCreate(s0, k, fail) ==
    IF fail = "cmd" THEN Raise(s0, CreationError, "", "Command failed")
    ELSE s0

\* the worktree slot is reset together with the index slot
RECURSIVE NotifyCommitted_BothSlots(_, _, _, _)
NotifyCommitted_BothSlots(s, o, commit, j) ==
    IF j > Len(o.ref_items) \/ Halted(s) THEN s
    ELSE LET it == o.ref_items[j]
             s1 == [s EXCEPT !.ex[it].commits = @ \cup {commit},
                             !.ex[it].state_index = UNMODIFIED,
                             !.ex[it].state_worktree = UNMODIFIED]
             s2 == IF ~IsItemRepo(s1.ex[o.repo].cls)
                      THEN Raise(s1, "AttributeError", "", "")
                   ELSE [s1 EXCEPT !.ex[o.repo].items = @ \cup {it}]
         IN  NotifyCommitted_BothSlots(s2, o, commit, j + 1)

\* the index slot of a committed file is left as it was
RECURSIVE NotifyCommitted_IndexKept(_, _, _, _)
NotifyCommitted_IndexKept(s, o, commit, j) ==
    IF j > Len(o.ref_items) \/ Halted(s) THEN s
    ELSE LET it == o.ref_items[j]
             s1 == [s EXCEPT !.ex[it].commits = @ \cup {commit}]
             s2 == IF ~IsItemRepo(s1.ex[o.repo].cls)
                      THEN Raise(s1, "AttributeError", "", "")
                   ELSE [s1 EXCEPT !.ex[o.repo].items = @ \cup {it}]
         IN  NotifyCommitted_IndexKept(s2, o, commit, j + 1)

\* the loop of ItemCommit.create over self._ref_items, from the j-th on
RECURSIVE NotifyCommitted(_, _, _, _)
NotifyCommitted(s, o, commit, j) ==
    IF j > Len(o.ref_items) \/ Halted(s) THEN s
    ELSE LET it == o.ref_items[j]
             s1 == [s EXCEPT !.ex[it].commits = @ \cup {commit},
                             !.ex[it].state_index = UNMODIFIED]
             s2 == IF ~IsItemRepo(s1.ex[o.repo].cls)
                      THEN Raise(s1, "AttributeError", "", "")
                   ELSE [s1 EXCEPT !.ex[o.repo].items = @ \cup {it}]
         IN  NotifyCommitted(s2, o, commit, j + 1)

\* the commit is told to the referenced items but not to the repo
CommitLookup_RepoNotTold(s, k, fail) ==
    LET o == s.ex[k]
        commit == _get_last_commit_from_disc(s, o.commit_msg)
    IN  IF Halted(s) THEN s
        ELSE IF fail = "last commit"
            THEN Raise([s EXCEPT !.sha = @ + 1], CreationError, "",
                       "Failed to look up commit SHA")
        ELSE NotifyCommitted([s EXCEPT !.sha = @ + 1], o, commit, 1)

\* ItemCommit.create: look up the commit and tell the repo
CommitLookup(s, k, fail) ==
    LET o == s.ex[k]
        commit == _get_last_commit_from_disc(s, o.commit_msg)
    IN  IF Halted(s) THEN s
        ELSE IF fail = "last commit"
            THEN Raise([s EXCEPT !.sha = @ + 1], CreationError, "",
                       "Failed to look up commit SHA")
        ELSE NotifyCommitted(
                 [s EXCEPT !.sha = @ + 1,
                           !.ex[o.repo].commits = @ \cup {commit}],
                 o, commit, 1)

\* ItemCommit.create: the commit command runs; the first commit of a
\* repository creates its branch
CommitRun(s0, k, fail) ==
    LET s == CommandCreate(s0, k, fail)
    IN  IF Halted(s) THEN s
        ELSE [s EXCEPT !.disk.branches =
                           @ \cup {<<s.ex[s.ex[k].repo].path, "master">>}]

\* ItemCommit.create
CommitCreate(s0, k, fail, nb) ==
    RecordBranch(CommitLookup(CommitRun(s0, k, fail), k, fail),
                 k, fail, nb)

\* the loop of ItemDropFile.create over self._ref_items
DropCreate(s0, k, fail) ==
    LET o == s0.ex[k]
        s1 == CommandCreate(s0, k, fail)
        refs == {o.ref_items[j] : j \in DOMAIN o.ref_items}
    IN  IF Halted(s1) THEN s1
        ELSE [s1 EXCEPT
                !.disk.data = {c \in @ : \A i \in refs :
                                            ~(s0.ex[i].annexed
                                              /\ c[1] = s0.ex[i].path)},
                !.ex = [i \in DOMAIN @ |->
                          IF i \in refs
                          THEN [@[i] EXCEPT !.content_present = "False"]
                          ELSE @[i]]]

\* item.create() of the item at position k of the execution list
ItemCreate(s0, k, fail, nb) ==
    LET cls == s0.ex[k].cls
    IN  IF IsItemRepo(cls) THEN RepoCreate(s0, k, fail)
        ELSE IF IsItemFile(cls) THEN FileCreate(s0, k, fail, nb)
        ELSE IF cls = "ItemCommit" THEN CommitCreate(s0, k, fail, nb)
        ELSE IF cls = "ItemDropFile" THEN DropCreate(s0, k, fail)
        ELSE CommandCreate(s0, k, fail)

\* ------------------------------------------------------------------------
\* Integrity checks (assert_intact).  A check yields the assertion that
\* fails first, "" if none does.
\* ------------------------------------------------------------------------

\* ItemFile.assert_intact: object consistency and lexists(self.path)
FileAssertion(f, d) ==
    IF ~IsAbs(f.path) THEN "path is not absolute"
    ELSE IF f.content = "" THEN "content is not a string"
    ELSE IF is_untracked(f)
            /\ (is_staged(f) \/ is_modified(f) \/ is_clean(f))
        THEN "untracked and staged, modified or clean"
    ELSE IF is_untracked(f) /\ (is_locked(f) # "None"
                                \/ is_unlocked(f) # "None")
        THEN "untracked with a lock state"
    ELSE IF is_untracked(f) /\ f.commits # {}
        THEN "untracked with commits"
    ELSE IF is_untracked(f) /\ f.annexed THEN "untracked and annexed"
    ELSE IF is_untracked(f) /\ f.key # "" THEN "untracked with a key"
    ELSE IF is_untracked(f) /\ f.content_present # "None"
        THEN "untracked with content availability"
    ELSE IF (is_modified(f) \/ is_staged(f))
            /\ (is_clean(f) \/ is_untracked(f))
        THEN "modified or staged and clean or untracked"
    ELSE IF is_clean(f)
            /\ (is_untracked(f) \/ is_staged(f) \/ is_modified(f))
        THEN "clean and untracked, staged or modified"
    ELSE IF f.state_index \in {UNTRACKED, ADDED} /\ f.commits # {}
        THEN "commits of a file that was never committed"
    ELSE IF ~f.annexed /\ (f.locked # "None" \/ f.key # ""
                           \/ f.content_present = "True")
        THEN "annex properties of a file that is not annexed"
    ELSE IF f.annexed /\ is_untracked(f) THEN "annexed and untracked"
    ELSE IF f.annexed /\ f.key = "" THEN "annexed without a key"
    ELSE IF f.annexed /\ f.content_present = "None"
        THEN "annexed without content availability"
    ELSE IF f.path \notin d.files THEN "file does not exist"
    ELSE ""

\* the content is read and compared whatever its availability
FileReads_Always(f) == TRUE

\* ItemFile.assert_intact: the content is read and compared if it is
\* available or the file is not annexed
FileReads(f) == f.content_present = "True" \/ ~f.annexed

\* ItemFile.assert_intact of the item at position i: the failing assertion
\* and whether the file was opened for reading
FileIntact(ex, d, i) ==
    LET f == ex[i]
        a == FileAssertion(f, d)
    IN  IF a # "" THEN [why |-> a, opened |-> FALSE]
        ELSE IF ~FileReads(f) THEN [why |-> "", opened |-> FALSE]
        ELSE IF ReadFile(d, f.path) = {}
            THEN [why |-> "IOError", opened |-> TRUE]
        ELSE IF ReadFile(d, f.path) # {f.content}
            THEN [why |-> "content differs", opened |-> TRUE]
        ELSE [why |-> "", opened |-> TRUE]

\* ItemRepo.files and ItemRepo.submodules
files(ex, r) == {i \in ex[r].items : IsItemFile(ex[i].cls)}
submodules(ex, r) ==
    {i \in ex[r].items : IsItemRepo(ex[i].cls) /\ ex[i].super = r}

\* ItemRepo.assert_intact: the comparison of `git remote -v` with
\* self.remotes.  Every line of the output is split and its third field
\* stripped with str.strip('(', ')'), a call with one argument too many.
RemotesAssertion(o, d) ==
    LET lines == 2 * Cardinality({x \in d.remotes : x[1] = o.path})
    IN  IF lines > 0 THEN "TypeError"
        ELSE IF o.remotes = {} THEN "" ELSE "remotes differ"

\* ItemRepo.assert_intact of the item at position r
RECURSIVE RepoIntact(_, _, _)
RepoIntact(ex, d, r) ==
    LET o == ex[r]
        bad == {i \in files(ex, r) : FileIntact(ex, d, i).why # ""}
        badsub == {i \in submodules(ex, r) : RepoIntact(ex, d, i) # ""}
    IN  IF ~o.annex /\ (o.annex_init \/ o.annex_version # 0
                        \/ o.annex_direct)
            THEN "plain git with annex properties"
        ELSE IF o.annex /\ (o.annex_version # 0 \/ o.annex_direct)
                /\ ~o.annex_init
            THEN "annex version or direct mode without initialization"
        ELSE IF o.annex /\ ~o.annex_init
                /\ (o.src = "" \/ <<"origin", o.src>> \notin o.remotes)
            THEN "annex is not initialized and not a clone"
        ELSE IF o.src # "" /\ o.remotes = {} THEN "clone without remotes"
        ELSE IF o.branches # {} /\ o.commits = {}
            THEN "branches without commits"
        ELSE IF \E i \in files(ex, r) :
                    \/ ~startswith(ex[i].path, o.path)
                    \/ ex[i].repo # r
            THEN "file does not belong to the repo"
        ELSE IF bad # {} THEN FileIntact(ex, d, CHOOSE i \in bad : TRUE).why
        ELSE IF \E i \in files(ex, r) : ~(ex[i].commits \subseteq o.commits)
            THEN "commit of a file is not a commit of the repo"
        ELSE IF \E i \in submodules(ex, r) : ~startswith(ex[i].path, o.path)
            THEN "submodule does not belong to the repo"
        ELSE IF badsub # {}
            THEN RepoIntact(ex, d, CHOOSE i \in badsub : TRUE)
        ELSE IF o.path \notin d.dirs \/ o.path \notin d.gits
            THEN "not a repository"
        ELSE IF {x[2] : x \in {y \in d.branches : y[1] = o.path}}
                    # o.branches
            THEN "branches differ"
        ELSE IF submodules(ex, r) # {} THEN "submodules differ"
        ELSE RemotesAssertion(o, d)

\* get_items_recursively, n levels deep: everything in the child sets of
\* the items S and of the repos found there
RECURSIVE get_items_recursively(_, _, _)
get_items_recursively(ex, S, n) ==
    LET below == UNION {ex[i].items : i \in {j \in S : IsItemRepo(ex[j].cls)}}
    IN  IF n = 0 THEN {}
        ELSE below \cup get_items_recursively(ex, below, n - 1)

\* the items reachable from the roots
Reachable(ex, roots) ==
    roots \cup get_items_recursively(ex, roots, Len(ex))

\* a repo lies in its own child sets: the recursion does not end
Endless(ex, roots) ==
    \E r \in Reachable(ex, roots) :
        IsItemRepo(ex[r].cls) /\ r \in get_items_recursively(ex, {r}, Len(ex))

\* TestRepo_NEW.assert_intact
TestRepoIntact(defs, ex, index, self_repo, roots, d) ==
    LET indexed == {index[q] : q \in DOMAIN index}
        badroots == {r \in roots : RepoIntact(ex, d, r) # ""}
    IN  IF self_repo = 0 \/ ex[self_repo].cls # "ItemSelf"
            THEN "repo is not an ItemSelf"
        ELSE IF \E r \in roots : ~IsItemRepo(ex[r].cls)
            THEN "root is not a repo"
        ELSE IF Len(defs) # Len(ex) THEN "definition and execution differ"
        ELSE IF indexed # {i \in DOMAIN ex : ~IsItemCommand(ex[i].cls)}
            THEN "indexed items and executed items differ"
        ELSE IF Endless(ex, roots) THEN "RuntimeError"
        ELSE IF Reachable(ex, roots) # indexed
            THEN "not every item is reachable"
        ELSE IF badroots # {}
            THEN RepoIntact(ex, d, CHOOSE r \in badroots : TRUE)
        ELSE ""

\* ------------------------------------------------------------------------
\* Definition lists the fixture class may carry
\* ------------------------------------------------------------------------

Staged == <<ADDED, UNMODIFIED>>
Untracked == <<UNTRACKED, UNTRACKED>>

\* BasicGit._item_definitions
BasicGitDefinitions ==
    << ERepo("ItemSelf", Dot, FALSE),
       EInfo(Dot, Staged),
       EFile(<<"test.dat">>, Dot, "123", Staged, FALSE),
       ECmd("ItemCommit", Dot, <<>>, << <<"test.dat">>, <<"INFO.txt">> >>,
            "Adding a basic INFO file and rudimentary load file.") >>

\* BasicMixed._item_definitions
BasicMixedDefinitions ==
    << ERepo("ItemSelf", Dot, TRUE),
       EInfo(Dot, Staged),
       EFile(<<"test.dat">>, Dot, "123", Staged, FALSE),
       ECmd("ItemCommit", Dot, <<>>, << <<"test.dat">>, <<"INFO.txt">> >>,
            "Adding a basic INFO file and rudimentary load file for annex testing"),
       [EFile(<<"test-annex.dat">>, Dot, "", Staged, TRUE)
            EXCEPT !.src = "url", !.key = "SHA256E-s28"],
       ECmd("ItemCommit", Dot, <<>>, << <<"test-annex.dat">> >>,
            "Adding a rudimentary git-annex load file"),
       ECmd("ItemDropFile", Dot, <<>>, << <<"test-annex.dat">> >>, "") >>

\* entries the enumerated definition lists are made of
Entries ==
    { ERepo("ItemSelf", Dot, FALSE),
      ERepo("ItemSelf", <<"sub">>, TRUE),
      ERepo("ItemRepo", <<"sub">>, TRUE),
      EFile(<<"f">>, Dot, "123", Staged, FALSE),
      [EFile(<<"f">>, Dot, "123", Untracked, TRUE)
           EXCEPT !.key = "K", !.locked = "True"],
      EFile(<<"f">>, Dot, "123", <<MODIFIED, UNMODIFIED>>, FALSE),
      [EFile(<<"f">>, Dot, "123", Staged, TRUE) EXCEPT !.src = "url"],
      [EFile(<<"INFO.txt">>, Dot, "123", Clean, FALSE)
           EXCEPT !.commit_msg = "m"],
      EFile(<<"g">>, <<"f">>, "123", Untracked, FALSE),
      EFile(<<"g">>, <<>>, "123", Untracked, FALSE),
      EInfo(Dot, Clean),
      ECmd("ItemCommit", Dot, <<>>, << <<"f">> >>, "m"),
      ECmd("ItemCommit", <<>>, <<>>, << <<"f">> >>, "m"),
      ECmd("ItemCommit", <<"x">>, <<>>, <<>>, ""),
      ECmd("ItemDropFile", <<>>, Dot, << <<"f">> >>, ""),
      ECmd("ItemCommand", Dot, <<>>, <<>>, ""),
      [BlankEntry EXCEPT !.cls = "NotAnItem"] }

EnumeratedDefinitions == UNION {[1..n -> Entries] : n \in 0..MaxLen}

\* longer definitions for the cases two entries cannot show
ScenarioDefinitions ==
    { BasicGitDefinitions,
      BasicMixedDefinitions,
      \* Scenario A
      << ERepo("ItemSelf", Dot, FALSE),
         EFile(<<"test.dat">>, Dot, "123", Staged, FALSE) >>,
      \* Scenario B
      << ERepo("ItemSelf", Dot, FALSE),
         EFile(<<"test.dat">>, Dot, "123", Staged, FALSE),
         ECmd("ItemCommit", Dot, <<>>, << <<"test.dat">> >>, "m") >>,
      \* a reference to an entry declared only later
      << ERepo("ItemSelf", Dot, FALSE),
         ECmd("ItemCommit", Dot, <<>>, << <<"f">> >>, "m"),
         EFile(<<"f">>, Dot, "123", Staged, FALSE) >>,
      \* the second of two references is unresolved
      << ERepo("ItemSelf", Dot, FALSE),
         EFile(<<"f">>, Dot, "123", Staged, FALSE),
         ECmd("ItemCommit", Dot, <<>>, << <<"f">>, <<"g">> >>, "m") >>,
      \* duplicate path and unresolved repo in one entry
      << ERepo("ItemSelf", Dot, FALSE),
         EFile(<<"f">>, Dot, "123", Staged, FALSE),
         EFile(<<"f">>, <<"sub">>, "123", Staged, FALSE) >>,
      \* info file's default path against an explicit one, both orders
      << ERepo("ItemSelf", Dot, FALSE),
         EInfo(Dot, Staged),
         EFile(<<"INFO.txt">>, Dot, "123", Staged, FALSE) >>,
      << ERepo("ItemSelf", Dot, FALSE),
         EFile(<<"INFO.txt">>, Dot, "123", Staged, FALSE),
         EInfo(Dot, Staged) >>,
      \* an illegal initial state after entries that materialize
      << ERepo("ItemSelf", Dot, FALSE),
         EFile(<<"g">>, Dot, "123", Untracked, FALSE),
         EFile(<<"f">>, Dot, "123", <<MODIFIED, UNMODIFIED>>, FALSE) >>,
      \* content and source-URL (Scenario C) after a valid file
      << ERepo("ItemSelf", Dot, TRUE),
         EFile(<<"g">>, Dot, "123", Staged, FALSE),
         [EFile(<<"f">>, Dot, "123", Staged, TRUE) EXCEPT !.src = "url"] >>,
      \* two staged files, one of them committed
      << ERepo("ItemSelf", Dot, FALSE),
         EFile(<<"f">>, Dot, "123", Staged, FALSE),
         EFile(<<"g">>, Dot, "456", Staged, FALSE),
         ECmd("ItemCommit", Dot, <<>>, << <<"f">> >>, "m") >>,
      \* an untracked file referenced by a commit command
      << ERepo("ItemSelf", Dot, FALSE),
         EFile(<<"f">>, Dot, "123", Untracked, FALSE),
         ECmd("ItemCommit", Dot, <<>>, << <<"f">> >>, "m") >>,
      \* a commit command whose 'repo' names a file
      << ERepo("ItemSelf", Dot, FALSE),
         EFile(<<"f">>, Dot, "123", Untracked, FALSE),
         ECmd("ItemCommit", Dot, <<"f">>, <<>>, "m") >>,
      \* a file in a sub-repository, committed from the sub-repository
      << ERepo("ItemSelf", Dot, TRUE),
         ERepo("ItemRepo", <<"sub">>, TRUE),
         EFile(<<"sub", "f">>, <<"sub">>, "123", Staged, TRUE),
         ECmd("ItemCommit", <<"sub">>, <<>>, << <<"sub", "f">> >>, "") >>,
      \* a commit command that names its repo and no working directory
      << ERepo("ItemSelf", Dot, FALSE),
         EFile(<<"f">>, Dot, "123", Staged, FALSE),
         ECmd("ItemCommit", <<>>, Dot, << <<"f">> >>, "m") >>,
      \* a file at a path that a repository created before made a directory
      << ERepo("ItemSelf", Dot, FALSE),
         ERepo("ItemRepo", <<"sub", "r">>, FALSE),
         EFile(<<"sub">>, Dot, "123", Untracked, FALSE) >>,
      \* a repository at the path of a file, under another path key
      << ERepo("ItemSelf", Dot, FALSE),
         EFile(<<"f">>, Dot, "123", Untracked, FALSE),
         ERepo("ItemRepo", <<".", "f">>, FALSE) >>,
      \* a drop command in a repository without annex
      << ERepo("ItemSelf", Dot, FALSE),
         EFile(<<"f">>, Dot, "123", Staged, FALSE),
         ECmd("ItemDropFile", <<>>, Dot, << <<"f">> >>, "") >>,
      \* a commit command run in a sub-repository on a file of the
      \* sub-repository, with the top-level repository as its 'repo'
      << ERepo("ItemSelf", Dot, FALSE),
         ERepo("ItemRepo", <<"sub">>, FALSE),
         EFile(<<"sub", "f">>, <<"sub">>, "123", Staged, FALSE),
         ECmd("ItemCommit", <<"sub">>, Dot, << <<"sub", "f">> >>, "m") >>,
      \* a drop command in an annex repository on a file kept in git
      << ERepo("ItemSelf", Dot, TRUE),
         EFile(<<"f">>, Dot, "123", Staged, FALSE),
         ECmd("ItemDropFile", <<>>, Dot, << <<"f">> >>, "") >>,
      \* an initialized annex repository without commits
      << ERepo("ItemSelf", Dot, TRUE) >>,
      \* an annex repository cloned without initializing the annex
      << ERepo("ItemSelf", Dot, FALSE),
         [ERepo("ItemRepo", <<"sub">>, TRUE)
              EXCEPT !.src = "url", !.annex_init = "False"] >> }

Definitions == EnumeratedDefinitions \cup ScenarioDefinitions

\* datalad.repo.version and datalad.repo.direct
Configs == {[version |-> v, direct |-> d] : v \in {5, 6}, d \in BOOLEAN}

\* ------------------------------------------------------------------------
\* State
\* ------------------------------------------------------------------------

VARIABLES
    _item_definitions,  \* the class attribute, shared by all instances
    cfg,                \* datalad's configuration
    cur,                \* the instantiation in progress
    pc,                 \* where TestRepo_NEW.__init__ of every instance is
    idx,                \* position the loop in progress is at
    _execution,         \* self._execution of every instance
    _items,             \* self._items of every instance
    repo,               \* self.repo of every instance (0: None)
    _roots,             \* self._roots of every instance
    err,                \* the exception that ended every instance's build
    created,            \* positions on which create() was called, in order
    disk,               \* on disk: directories, files, .git directories,
                        \* readable content <<path, content>>, branches
                        \* <<repo path, name>>, remotes <<repo path, name, url>>
    sha,                \* number of commits the tool has made
    found,              \* number of branches the last create() was told of
    issued,             \* commands the last create() of a file handed to
                        \* _excute_by_item, in order
    tests_cache,        \* the dataset cache of the tests: whether it is
                        \* configured, the repositories at the URLs, the
                        \* datasets installed in it, the calls made
    probe,              \* the status properties a test last read of a file
    check               \* the integrity check made last and its result

vars == <<_item_definitions, cfg, cur, pc, idx, _execution, _items, repo,
          _roots, err, created, disk, sha, found, issued, tests_cache,
                   probe, check>>

EmptyIndex == [k \in {} |-> 0]

\* a call of get_cached_dataset that was not made
NoCall == [url |-> "", dataset_name |-> "", path |-> "", cloned |-> FALSE,
           removed |-> FALSE, raised |-> "", ds |-> "",
           origin |-> [u \in {} |-> 0]]

\* the cache while no test uses it
UnusedCache == [DATALAD_TESTS_CACHE |-> FALSE, origin |-> [u \in {} |-> 0],
                installed |-> [l \in {} |-> 0], calls |-> 0,
                last |-> NoCall, before |-> NoCall]

NoProbe == [pair |-> <<>>, is_untracked |-> FALSE, is_staged |-> FALSE,
            is_modified |-> FALSE, is_clean |-> FALSE]

NoCheck == [kind |-> "none", b |-> 0, i |-> 0, why |-> "", opened |-> FALSE,
            raised |-> ""]

\* the state before the first instantiation of a class with one of the
\* definition lists D
InitWith(D) ==
    /\ _item_definitions \in D
    /\ cfg \in Configs
    /\ cur = 1
    /\ pc = [b \in Builds |-> IF b = 1 THEN "resolve" ELSE "idle"]
    /\ idx = 1
    /\ _execution = [b \in Builds |-> <<>>]
    /\ _items = [b \in Builds |-> EmptyIndex]
    /\ repo = [b \in Builds |-> 0]
    /\ _roots = [b \in Builds |-> {}]
    /\ err = [b \in Builds |-> NoErr]
    /\ created = [b \in Builds |-> <<>>]
    /\ disk = [dirs |-> {}, files |-> {}, gits |-> {}, data |-> {},
               branches |-> {}, remotes |-> {}]
    /\ sha = 0
    /\ found = 0
    /\ issued = <<>>
    /\ tests_cache = UnusedCache
    /\ probe = NoProbe
    /\ check = NoCheck

Init == InitWith(Definitions)

\* ------------------------------------------------------------------------
\* TestRepo_NEW.__init__
\* ------------------------------------------------------------------------

Fail(e) ==
    /\ pc' = [pc EXCEPT ![cur] = "failed"]
    /\ err' = [err EXCEPT ![cur] = e]

\* a further ItemSelf replaces the one found before
SecondSelf_Never(cls, self_repo) == FALSE

\* `if item[0] is ItemSelf: if self.repo:` -- we had one already
SecondSelf(cls, self_repo) == cls = "ItemSelf" /\ self_repo # 0

\* one pass of the loop over self._item_definitions
Resolve ==
    /\ pc[cur] = "resolve"
    /\ idx =< Len(_item_definitions)
    /\ LET r == ResolveEntry(_item_definitions[idx], _execution[cur],
                             _items[cur], cur, cfg, idx - 1)
           pos == Len(_execution[cur]) + 1
       IN  /\ _item_definitions' = [_item_definitions EXCEPT ![idx] = r.e]
           /\ IF r.err # NoErr THEN
                  /\ Fail(r.err)
                  /\ UNCHANGED <<idx, _execution, _items, repo>>
              ELSE
                  /\ _execution' = [_execution EXCEPT
                                       ![cur] = Append(@, r.obj)]
                  /\ _items' = IF IsItemCommand(r.obj.cls) THEN _items
                               ELSE [_items EXCEPT
                                        ![cur] = (r.r_path :> pos) @@ @]
                  /\ IF SecondSelf(r.obj.cls, repo[cur]) THEN
                         /\ Fail(Err(DefinitionError, idx - 1, "ItemSelf",
                                     NoRef,
                                     "must not be defined multiple times"))
                         /\ UNCHANGED <<idx, repo>>
                     ELSE
                         /\ repo' = IF r.obj.cls = "ItemSelf"
                                    THEN [repo EXCEPT ![cur] = pos]
                                    ELSE repo
                         /\ idx' = idx + 1
                         /\ UNCHANGED <<pc, err>>
    /\ UNCHANGED <<cfg, cur, _roots, created, disk, sha, found, issued, tests_cache,
                   probe, check>>

\* after the loop: the definition must have contained an ItemSelf
CheckSelf ==
    /\ pc[cur] = "resolve"
    /\ idx > Len(_item_definitions)
    /\ IF repo[cur] = 0 THEN
           /\ Fail(Err(DefinitionError, -1, "", NoRef, "Found none"))
           /\ UNCHANGED idx
       ELSE
           /\ pc' = [pc EXCEPT ![cur] = "create"]
           /\ idx' = 1
           /\ UNCHANGED err
    /\ UNCHANGED <<_item_definitions, cfg, cur, _execution, _items, repo,
                   _roots, created, disk, sha, found, issued, tests_cache,
                   probe, check>>

\* the loop skips every other item
NextIndex_Skip(i) == i + 2

\* the loop of TestRepo_NEW.create moves on to the next item
NextIndex(i) == i + 1

\* TestRepo_NEW.create: one pass of the loop over self._execution
Create ==
    /\ pc[cur] = "create"
    /\ idx =< Len(_execution[cur])
    /\ \E fail \in ToolFailures, nb \in BranchCounts :
         LET s == ItemCreate(CState(_execution[cur], disk, sha), idx, fail, nb)
         IN  /\ _execution' = [_execution EXCEPT ![cur] = s.ex]
             /\ disk' = s.disk
             /\ sha' = s.sha
             /\ found' = s.found
             /\ issued' = s.issued
             /\ created' = [created EXCEPT ![cur] = Append(@, idx)]
             /\ IF s.err = NoErr THEN
                    /\ idx' = NextIndex(idx)
                    /\ UNCHANGED <<pc, err>>
                ELSE
                    /\ Fail(IF s.err.kind = CreationError
                            THEN [s.err EXCEPT !.index = idx - 1]
                            ELSE s.err)
                    /\ UNCHANGED idx
    /\ UNCHANGED <<_item_definitions, cfg, cur, _items, repo, _roots, probe,
                   tests_cache, check>>

\* self._roots: the indexed repos without a superproject
RootRepos(ex, index) ==
    {index[p] : p \in {q \in DOMAIN index : /\ IsItemRepo(ex[index[q]].cls)
                                            /\ ex[index[q]].super = 0}}

\* after create(): the roots and the check of the item at '.'
Roots ==
    /\ pc[cur] = "create"
    /\ idx > Len(_execution[cur])
    /\ _roots' = [_roots EXCEPT
                     ![cur] = RootRepos(_execution[cur], _items[cur])]
    /\ IF Dot \in DOMAIN _items[cur]
          /\ IsItemFile(_execution[cur][_items[cur][Dot]].cls) THEN
           Fail(Err(DefinitionError, -1, "ItemFile", NoRef,
                    "Item at root location must not be a file"))
       ELSE
           /\ pc' = [pc EXCEPT ![cur] = "done"]
           /\ UNCHANGED err
    /\ UNCHANGED <<_item_definitions, cfg, cur, idx, _execution, _items,
                   repo, created, disk, sha, found, issued, tests_cache,
                   probe, check>>

\* the fixture class is instantiated again, into the next fresh directory
Instantiate ==
    /\ pc[cur] \in {"done", "failed"}
    /\ cur < NumBuilds
    /\ cur' = cur + 1
    /\ pc' = [pc EXCEPT ![cur + 1] = "resolve"]
    /\ idx' = 1
    /\ UNCHANGED <<_item_definitions, cfg, _execution, _items, repo, _roots,
                   err, created, disk, sha, found, issued, tests_cache,
                   probe, check>>

\* a test calls assert_intact of the fixture it has just built
AssertIntact ==
    /\ pc[cur] = "done"
    /\ check' = [kind |-> "fixture", b |-> cur, i |-> 0,
                 why |-> TestRepoIntact(_item_definitions, _execution[cur],
                                        _items[cur], repo[cur], _roots[cur],
                                        disk),
                 opened |-> FALSE, raised |-> ""]
    /\ UNCHANGED <<_item_definitions, cfg, cur, pc, idx, _execution, _items,
                   repo, _roots, err, created, disk, sha, found, issued, tests_cache,
                   probe>>

\* a test calls assert_intact of a file item of the fixture it has just
\* built
FileAssertIntact ==
    /\ pc[cur] = "done"
    /\ \E i \in DOMAIN _execution[cur] :
          /\ IsItemFile(_execution[cur][i].cls)
          /\ check' = [kind |-> "file", b |-> cur, i |-> i,
                       why |-> FileIntact(_execution[cur], disk, i).why,
                       opened |-> FileIntact(_execution[cur], disk, i).opened,
                       raised |-> ""]
    /\ UNCHANGED <<_item_definitions, cfg, cur, pc, idx, _execution, _items,
                   repo, _roots, err, created, disk, sha, found, issued, tests_cache,
                   probe>>

\* a test calls create() of a repo or file item of the fixture it has
\* just built once more
CreateAgain ==
    /\ pc[cur] = "done"
    /\ \E i \in DOMAIN _execution[cur] :
        \E fail \in ToolFailures, nb \in BranchCounts :
          LET s == ItemCreate(CState(_execution[cur], disk, sha), i, fail, nb)
          IN  /\ ~IsItemCommand(_execution[cur][i].cls)
              /\ _execution' = [_execution EXCEPT ![cur] = s.ex]
              /\ disk' = s.disk
              /\ sha' = s.sha
              /\ found' = s.found
              /\ issued' = s.issued
              /\ check' = [kind |-> "create", b |-> cur, i |-> i,
                           why |-> s.err.msg, opened |-> FALSE,
                           raised |-> s.err.kind]
    /\ UNCHANGED <<_item_definitions, cfg, cur, pc, idx, _items, repo, _roots,
                   err, created, tests_cache, probe>>

Next ==
    \/ Resolve
    \/ CheckSelf
    \/ Create
    \/ Roots
    \/ Instantiate
    \/ AssertIntact
    \/ FileAssertIntact
    \/ CreateAgain

Spec == Init /\ [][Next]_vars

\* ------------------------------------------------------------------------
\* The parameters of ItemRepo.__init__
\* ------------------------------------------------------------------------

\* values of a parameter that is None, True or False
Tristate == {"None", "True", "False"}

\* values of annex_version (0: None)
Versions == {0, 5, 6}

\* an ItemSelf with every combination of the constructor's parameters,
\* followed by a file
RepoDefinitions ==
    {<< [ERepo("ItemSelf", Dot, a)
            EXCEPT !.annex_version = v, !.annex_direct = d,
                   !.annex_init = i, !.src = u],
        EFile(<<"f">>, Dot, "123", Untracked, FALSE) >> :
        a \in BOOLEAN, v \in Versions, d \in Tristate, i \in Tristate,
        u \in {"", "url"}}

SpecRepo == InitWith(RepoDefinitions) /\ [][Next]_vars

\* ------------------------------------------------------------------------
\* The parameters of ItemFile.__init__
\* ------------------------------------------------------------------------

\* status pairs a definition may declare for a file
FileStates == {Staged, Clean, Untracked, <<MODIFIED, UNMODIFIED>>}

\* file and info file entries with every combination of the constructor's
\* parameters (ItemInfoFile has no parameter 'key')
FileEntries ==
    {e \in {[EFile(<<"f">>, Dot, c, st, ax)
                EXCEPT !.cls = k, !.src = u, !.commit_msg = m, !.locked = l,
                       !.key = ky] :
                k \in FileClasses, c \in {"", "123"}, st \in FileStates,
                ax \in BOOLEAN, u \in {"", "url"}, m \in {"", "m"},
                l \in Tristate, ky \in {"", "K"}} :
        e.cls = "ItemInfoFile" => e.key = ""}

\* an annex ItemSelf followed by one of these entries
FileDefinitions == {<<ERepo("ItemSelf", Dot, TRUE), e>> : e \in FileEntries}

SpecFile == InitWith(FileDefinitions) /\ [][Next]_vars

\* ------------------------------------------------------------------------
\* Reading the status properties of a file item
\* ------------------------------------------------------------------------

\* one definition list per pair of status symbols, with and without a
\* commit of the file
StatusDefinitions ==
    LET self == ERepo("ItemSelf", Dot, FALSE)
        file(i, w) == EFile(<<"f">>, Dot, "123", <<i, w>>, FALSE)
        commit == ECmd("ItemCommit", Dot, <<>>, <<(<<"f">>)>>, "")
    IN  {<<self, file(i, w)>> : i \in States, w \in States}
        \cup {<<self, file(i, w), commit>> : i \in States, w \in States}

\* ItemFile.assert_intact reads is_untracked, is_staged, is_modified and
\* is_clean of a file item
ReadStatus ==
    /\ \E b \in Builds : \E i \in DOMAIN _execution[b] :
          LET f == _execution[b][i]
          IN  /\ IsItemFile(f.cls)
              /\ probe' = [pair |-> <<f.state_index, f.state_worktree>>,
                           is_untracked |-> is_untracked(f),
                           is_staged |-> is_staged(f),
                           is_modified |-> is_modified(f),
                           is_clean |-> is_clean(f)]
    /\ UNCHANGED <<_item_definitions, cfg, cur, pc, idx, _execution, _items,
                   repo, _roots, err, created, disk, sha, found, issued, tests_cache,
                   check>>

NextStatus == Next \/ ReadStatus

SpecStatus == InitWith(StatusDefinitions) /\ [][NextStatus]_vars

\* ------------------------------------------------------------------------
\* The dataset cache of the tests (datalad/tests/fixtures.py)
\* ------------------------------------------------------------------------

\* calls of get_cached_dataset in one behaviour
MaxCalls == 2

\* times the repository at a URL changes in one behaviour
MaxRev == 1

\* the URLs tests ask for
Urls == {"u1", "u2"}

\* the dataset_name arguments ("": None)
DatasetNames == {"", "a"}

\* decode_source_spec(url)['default_destpath']
default_destpath(url) == "dir of " \o url

\* the directories DATALAD_TESTS_CACHE / dataset_name
CachePaths == {default_destpath(u) : u \in Urls} \cup (DatasetNames \ {""})

\* the version arguments ("": None): a commit every revision of every
\* repository has, and one that none has
VersionArgs == {"", "known", "unknown"}

\* the keys arguments ({}: None)
KeyArgs == {{}, {"k"}}

\* nothing is installed at a path
NotInstalled == [url |-> "", rev |-> -1, keys |-> {}]

\* Dataset.is_installed
is_installed(c, path) == c.installed[path] # NotInstalled

\* Clone()(url, path): the dataset at path is a clone of the repository
\* at url as it is now, without annexed content
Clone(c, url, path) ==
    [c EXCEPT !.installed[path] =
                  [url |-> url, rev |-> c.origin[url], keys |-> {}]]

\* any('uptodate' not in c['operations'] for c in ds.repo.fetch('origin')):
\* the repository the dataset at path was cloned from has changed since
fetch(c, path) ==
    c.installed[path].rev # c.origin[c.installed[path].url]

\* rmtree(ds.path)
rmtree(c, path) == [c EXCEPT !.installed[path] = NotInstalled]

\* ds.repo.commit_exists(version)
commit_exists(version) == version = "known"

\* ds.repo.get(keys, key=True)
get(c, path, keys) == [c EXCEPT !.installed[path].keys = @ \cup keys]

\* a dataset in the cache is cloned again on every call
CacheLookup_AlwaysFresh(c, url, path) ==
    IF ~is_installed(c, path)
    THEN [Clone(c, url, path) EXCEPT !.last.cloned = TRUE]
    ELSE [Clone(rmtree(c, path), url, path)
              EXCEPT !.last.cloned = TRUE, !.last.removed = TRUE]

\* get_cached_dataset: clone unless the cache has the dataset, clone again
\* when there was something to fetch
CacheLookup(c, url, path) ==
    IF ~is_installed(c, path)
    THEN [Clone(c, url, path) EXCEPT !.last.cloned = TRUE]
    ELSE IF fetch(c, path)
    THEN [Clone(rmtree(c, path), url, path)
              EXCEPT !.last.cloned = TRUE, !.last.removed = TRUE]
    ELSE c

\* get_cached_dataset: check the version, get the keys, return ds
CacheDeliver(c, path, version, keys) ==
    IF version # "" /\ ~commit_exists(version)
    THEN [c EXCEPT !.last.raised = "AssertionError"]
    ELSE [get(c, path, keys) EXCEPT !.last.ds = path]

\* get_cached_dataset(url, dataset_name, version, keys) with the cache c
get_cached_dataset(c, url, dataset_name, version, keys) ==
    LET path == IF dataset_name = "" THEN default_destpath(url)
                ELSE dataset_name
        c0 == [c EXCEPT !.calls = @ + 1,
                        !.before = c.last,
                        !.last = [NoCall EXCEPT !.url = url,
                                                !.dataset_name = dataset_name,
                                                !.origin = c.origin]]
    IN  IF ~c.DATALAD_TESTS_CACHE
        THEN [c0 EXCEPT !.last.raised = "ValueError"]
        ELSE CacheDeliver(
                 CacheLookup([c0 EXCEPT !.last.path = path], url, path),
                 path, version, keys)

\* a test asks for a cached dataset
GetCachedDataset ==
    /\ tests_cache.calls < MaxCalls
    /\ \E url \in Urls, dataset_name \in DatasetNames,
          version \in VersionArgs, keys \in KeyArgs :
          tests_cache' =
              get_cached_dataset(tests_cache, url, dataset_name, version, keys)
    /\ UNCHANGED <<_item_definitions, cfg, cur, pc, idx, _execution, _items,
                   repo, _roots, err, created, disk, sha, found, issued,
                   probe, check>>

\* the repository at a URL gets new commits
OriginChanges ==
    /\ \E url \in Urls :
          /\ tests_cache.origin[url] < MaxRev
          /\ tests_cache' = [tests_cache EXCEPT !.origin[url] = @ + 1]
    /\ UNCHANGED <<_item_definitions, cfg, cur, pc, idx, _execution, _items,
                   repo, _roots, err, created, disk, sha, found, issued,
                   probe, check>>

\* the clones an earlier run can have left at a path: of the URL a default
\* path belongs to, of any URL at a path that was named
EarlierClones(path) ==
    {[url |-> u, rev |-> 0, keys |-> {}] :
         u \in {v \in Urls : path \in {default_destpath(v)}
                                      \cup (DatasetNames \ {""})}}

\* the cache directory as a test run finds it: configured or not, every
\* path empty or holding a clone made by an earlier run
InitCache ==
    /\ \E on \in BOOLEAN :
       \E inst \in {f \in [CachePaths ->
                             {NotInstalled}
                             \cup UNION {EarlierClones(p) : p \in CachePaths}] :
                       \A p \in CachePaths :
                           f[p] \in {NotInstalled} \cup EarlierClones(p)} :
          tests_cache = [UnusedCache EXCEPT !.DATALAD_TESTS_CACHE = on,
                                            !.origin = [u \in Urls |-> 0],
                                            !.installed = inst]
    /\ _item_definitions = <<>>
    /\ cfg \in {[version |-> 5, direct |-> FALSE]}
    /\ cur = 1
    /\ pc = [b \in Builds |-> "idle"]
    /\ idx = 1
    /\ _execution = [b \in Builds |-> <<>>]
    /\ _items = [b \in Builds |-> EmptyIndex]
    /\ repo = [b \in Builds |-> 0]
    /\ _roots = [b \in Builds |-> {}]
    /\ err = [b \in Builds |-> NoErr]
    /\ created = [b \in Builds |-> <<>>]
    /\ disk = [dirs |-> {}, files |-> {}, gits |-> {}, data |-> {},
               branches |-> {}, remotes |-> {}]
    /\ sha = 0
    /\ found = 0
    /\ issued = <<>>
    /\ probe = NoProbe
    /\ check = NoCheck

NextCache == GetCachedDataset \/ OriginChanges

SpecCache == InitCache /\ [][NextCache]_vars

\* ------------------------------------------------------------------------
\* Properties
\* ------------------------------------------------------------------------

\* the build of instance b got past the resolution of its definition list
ResolutionPassed(b) ==
    \/ pc[b] \in {"create", "done"}
    \/ pc[b] = "failed" /\ created[b] # <<>>

\* what the items of instance b are and how they relate to each other
Graph(b) ==
    [i \in DOMAIN _execution[b] |->
        [cls |-> _execution[b][i].cls, repo |-> _execution[b][i].repo,
         items |-> _execution[b][i].items, super |-> _execution[b][i].super]]

\* C1: once the class was built without error, a further instantiation
\* builds items below its own directory only, is not rejected as wrongly
\* defined, and if it succeeds it has the item graph of the first one.
C1_SecondBuildIndependent ==
    \A b \in Builds \ {1} :
        pc[1] = "done" =>
            /\ \A i \in DOMAIN _execution[b] :
                   startswith(_execution[b][i].path, RootDir(b))
            /\ err[b].kind \notin {DefinitionError, "KeyError",
                                   "AttributeError"}
            /\ pc[b] = "done" => Graph(b) = Graph(1)

\* the references of an entry that the index cannot resolve
C2_UnresolvedRefs(e, index) ==
    {r \in {e.repo[j] : j \in DOMAIN e.repo}
           \cup {e.item[j] : j \in DOMAIN e.item} :
        r.isobj \/ r.p \notin DOMAIN index}

\* the entry has a defect that the loop checks before it looks up references
C2_CheckedEarlier(e, index) ==
    \/ IsItemCommand(e.cls) /\ e.cwd = <<>> /\ e.repo = <<>>
    \/ /\ ~IsItemCommand(e.cls)
       /\ \/ e.path = <<>> /\ e.cls # "ItemInfoFile"
          \/ e.path \in DOMAIN index
          \/ e.path = <<>> /\ <<"INFO.txt">> \in DOMAIN index

\* the loop is about to process a well-formed entry with an unresolved
\* reference
C2_Case ==
    /\ pc[cur] = "resolve"
    /\ idx =< Len(_item_definitions)
    /\ _item_definitions[idx].isdict
    /\ _item_definitions[idx].cls \in ItemClasses
    /\ C2_UnresolvedRefs(_item_definitions[idx], _items[cur]) # {}

\* the pass ends the build with a definition error at the entry's index
\* and constructs nothing
C2_Rejected ==
    /\ pc'[cur] = "failed"
    /\ err'[cur].kind = DefinitionError
    /\ err'[cur].index = idx - 1
    /\ _execution' = _execution
    /\ _items' = _items

\* C2 as stated: an entry referencing a path no earlier entry declares
\* ends the build with a definition error that reports the entry's index
\* and names the unresolved path; no object is constructed for it.
C2_ForwardReferenceNamed ==
    [][C2_Case =>
          /\ C2_Rejected
          /\ err'[cur].key \in C2_UnresolvedRefs(_item_definitions[idx],
                                                 _items[cur])]_vars

\* C2, amended: an entry referencing a path no earlier entry declares ends
\* the build with a definition error that reports the entry's index, and
\* no object is constructed for it; the error names the unresolved path
\* unless the entry has a defect that is checked before its references (a
\* command with neither cwd nor repo, a missing or already declared path).
C2_ForwardReferenceRejected ==
    [][C2_Case =>
          /\ C2_Rejected
          /\ ~C2_CheckedEarlier(_item_definitions[idx], _items[cur]) =>
                 /\ err'[cur].msg = "referenced before definition"
                 /\ err'[cur].key \in
                        C2_UnresolvedRefs(_item_definitions[idx],
                                          _items[cur])]_vars

\* a build rejected for a reference to a path that is declared further
\* down the list
C2_Witness ==
    /\ pc[cur] = "failed"
    /\ err[cur].msg = "referenced before definition"
    /\ ~err[cur].key.isobj
    /\ \E j \in DOMAIN _item_definitions :
           /\ j > err[cur].index + 1
           /\ ~IsItemCommand(_item_definitions[j].cls)
           /\ _item_definitions[j].path = err[cur].key.p

\* the path key an entry declares
C3_Key(e) ==
    IF e.path # <<>> THEN e.path
    ELSE IF e.cls = "ItemInfoFile" THEN <<"INFO.txt">>
    ELSE <<>>

\* C3: an entry declaring a path key that an earlier entry declared (the
\* info file's default path counting as declared) ends the build with a
\* definition error at that entry, and nothing is constructed for it.
C3_DuplicateKeyRejected ==
    [][(/\ pc[cur] = "resolve"
        /\ idx =< Len(_item_definitions)
        /\ _item_definitions[idx].isdict
        /\ _item_definitions[idx].cls \in RepoClasses \cup FileClasses
        /\ C3_Key(_item_definitions[idx]) \in DOMAIN _items[cur])
       => /\ pc'[cur] = "failed"
          /\ err'[cur].kind = DefinitionError
          /\ err'[cur].index = idx - 1
          /\ err'[cur].msg = "Ambiguous definition"
          /\ _execution' = _execution
          /\ _items' = _items]_vars

\* a build rejected because an info file without a path argument met an
\* earlier declaration of its default path
C3_Witness ==
    /\ pc[cur] = "failed"
    /\ err[cur].msg = "Ambiguous definition"
    /\ _item_definitions[err[cur].index + 1].cls = "ItemInfoFile"
    /\ _item_definitions[err[cur].index + 1].path = <<>>

C4_Selfs(b) ==
    {i \in DOMAIN _execution[b] : _execution[b][i].cls = "ItemSelf"}

\* C4: a build that gets past resolution has exactly one self item and it
\* is the instance's repo; a second self item ends the build with a
\* definition error at its entry, a list without one ends it with a
\* definition error, and in neither case anything is materialized.
C4_ExactlyOneSelf ==
    \A b \in Builds :
        /\ ResolutionPassed(b) =>
               /\ Cardinality(C4_Selfs(b)) = 1
               /\ repo[b] \in C4_Selfs(b)
        /\ Cardinality(C4_Selfs(b)) > 1 =>
               /\ pc[b] = "failed"
               /\ err[b].kind = DefinitionError
               /\ err[b].index + 1 \in C4_Selfs(b)
               /\ \E i \in C4_Selfs(b) : i < err[b].index + 1
               /\ created[b] = <<>>
        /\ (/\ C4_Selfs(b) = {}
            /\ pc[b] \notin {"idle", "resolve"}
            /\ Len(_execution[b]) = Len(_item_definitions)) =>
               /\ pc[b] = "failed"
               /\ err[b].kind = DefinitionError
               /\ created[b] = <<>>

\* a build rejected at its second self item
C4_Witness ==
    /\ pc[cur] = "failed"
    /\ err[cur].msg = "must not be defined multiple times"
    /\ Cardinality(C4_Selfs(cur)) = 2

\* C5: items are materialized in one pass, in the order of the definition
\* list, each at most once; a build that succeeded materialized every
\* item of the list exactly once.
C5_OnePassInOrder ==
    \A b \in Builds :
        /\ created[b] = [i \in 1..Len(created[b]) |-> i]
        /\ Len(created[b]) =< Len(_execution[b])
        /\ ResolutionPassed(b) =>
               /\ Len(_execution[b]) = Len(_item_definitions)
               /\ \A i \in DOMAIN _execution[b] :
                      _execution[b][i].cls = _item_definitions[i].cls
        /\ pc[b] = "done" => Len(created[b]) = Len(_execution[b])

\* a build of four items that succeeded
C5_Witness ==
    /\ pc[cur] = "done"
    /\ Len(created[cur]) = 4

\* C6: a failure while materializing ends the build with a creation error
\* tagged with the failing item's index; nothing after that item is
\* materialized and nothing materialized before is undone.
C6_FailureTagged ==
    [][/\ (pc[cur] = "create" /\ pc'[cur] = "failed") =>
             /\ err'[cur].kind = CreationError
             /\ err'[cur].index = idx - 1
             /\ created'[cur] = Append(created[cur], idx)
             /\ disk.dirs \subseteq disk'.dirs
             /\ disk.files \subseteq disk'.files
             /\ disk.gits \subseteq disk'.gits
       /\ pc[cur] = "failed" => created'[cur] = created[cur] /\ disk' = disk
      ]_vars

\* the status pairs a file may be defined with
C7_LegalInitial == {<<"?", "?">>, <<"A", " ">>, <<" ", " ">>}

\* C7: a definition list holding a file whose status pair is not one of
\* untracked, staged-as-added and clean is rejected before any item is
\* materialized.
C7_IllegalPairNeverMaterialized ==
    \A b \in Builds :
        (\E i \in DOMAIN _item_definitions :
             /\ _item_definitions[i].isdict
             /\ _item_definitions[i].cls \in FileClasses
             /\ _item_definitions[i].state \notin C7_LegalInitial)
        => /\ pc[b] \notin {"create", "done"}
           /\ created[b] = <<>>

\* C8: a build that ended with a definition error has materialized
\* nothing.
C8_DefinitionErrorBeforeSideEffects ==
    \A b \in Builds :
        (pc[b] = "failed" /\ err[b].kind = DefinitionError)
        => created[b] = <<>>

C9_StagedSymbols == {"M", "A", "D", "R", "C", "T"}

\* C9: whatever pair of status symbols a file item holds, is_untracked
\* holds exactly for ('?','?'), is_staged exactly for an index symbol among
\* M, A, D, R, C, T with worktree ' ', is_modified exactly when either
\* symbol is 'M', and is_clean exactly for (' ',' ').
C9_StatusTable ==
    probe.pair # <<>> =>
        /\ probe.is_untracked <=> probe.pair = <<"?", "?">>
        /\ probe.is_staged <=> (/\ probe.pair[1] \in C9_StagedSymbols
                                /\ probe.pair[2] = " ")
        /\ probe.is_modified <=> (probe.pair[1] = "M" \/ probe.pair[2] = "M")
        /\ probe.is_clean <=> probe.pair = <<" ", " ">>

\* the status of a file with a staged type change was read
C9_Witness ==
    /\ probe.pair = <<"T", " ">>
    /\ probe.is_staged
    /\ ~probe.is_modified

\* C10: in a build that succeeded, an untracked file has no commits, is
\* not annexed, has no key, and its lock state and content availability
\* are undefined.
C10_UntrackedCarriesNothing ==
    \A b \in Builds :
        pc[b] = "done" =>
            \A i \in DOMAIN _execution[b] :
                LET f == _execution[b][i]
                IN  (IsItemFile(f.cls) /\ is_untracked(f)) =>
                        /\ f.commits = {}
                        /\ ~f.annexed
                        /\ f.key = ""
                        /\ is_locked(f) = "None"
                        /\ is_unlocked(f) = "None"
                        /\ f.content_present = "None"

\* the items a command of instance b references
C11_Referenced(b, j) ==
    {_execution[b][j].ref_items[n] : n \in DOMAIN _execution[b][j].ref_items}

\* a commit command of instance b references the item at position i
C11_Committed(b, i) ==
    \E j \in DOMAIN _execution[b] :
        /\ _execution[b][j].cls = "ItemCommit"
        /\ i \in C11_Referenced(b, j)

\* an entry of instance b commits to the repo at position r: a commit
\* command of that repo or a file of that repo declared clean
C11_RepoCommitted(b, r) ==
    \E j \in DOMAIN _execution[b] :
        /\ _execution[b][j].repo = r
        /\ \/ _execution[b][j].cls = "ItemCommit"
           \/ /\ IsItemFile(_execution[b][j].cls)
              /\ _item_definitions[j].state = <<" ", " ">>

\* C11: a file declared (added, unmodified) that no commit command
\* references is staged, not untracked and without commits from the end of
\* resolution to the end of the build, and if no entry commits to its repo
\* that repo has no commits.
C11_StagedStaysStaged ==
    \A b \in Builds :
        ResolutionPassed(b) =>
            \A i \in DOMAIN _execution[b] :
                (/\ IsItemFile(_execution[b][i].cls)
                 /\ _item_definitions[i].state = <<"A", " ">>
                 /\ ~C11_Committed(b, i))
                => /\ is_staged(_execution[b][i])
                   /\ ~is_untracked(_execution[b][i])
                   /\ _execution[b][i].commits = {}
                   /\ ~C11_RepoCommitted(b, _execution[b][i].repo) =>
                          _execution[b][_execution[b][i].repo].commits = {}

\* a build that succeeded with a staged file left alone by the commit
\* command of its repo
C11_Witness ==
    /\ pc[cur] = "done"
    /\ \E i \in DOMAIN _execution[cur] :
           /\ IsItemFile(_execution[cur][i].cls)
           /\ _item_definitions[i].state = <<"A", " ">>
           /\ ~C11_Committed(cur, i)
           /\ C11_RepoCommitted(cur, _execution[cur][i].repo)
           /\ is_staged(_execution[cur][i])

\* the definition list is [self repo, file declared (added, unmodified),
\* commit command with a message] and instance b resolved the command to
\* that file in that repo
C12_Case(b) ==
    /\ Len(_item_definitions) = 3
    /\ _item_definitions[1].cls = "ItemSelf"
    /\ IsItemFile(_item_definitions[2].cls)
    /\ _item_definitions[2].state = <<"A", " ">>
    /\ _item_definitions[3].cls = "ItemCommit"
    /\ _item_definitions[3].msg # ""
    /\ pc[b] = "done"
    /\ _execution[b][3].ref_items = <<2>>
    /\ _execution[b][3].repo = 1
    /\ _execution[b][2].repo = 1

C13_CommitStep ==
    /\ pc[cur] = "create"
    /\ idx =< Len(_execution[cur])
    /\ _execution[cur][idx].cls = "ItemCommit"
    /\ created'[cur] = Append(created[cur], idx)

\* the files the commit command at position idx references
C13_Referenced ==
    {i \in DOMAIN _execution[cur] :
        /\ IsItemFile(_execution[cur][i].cls)
        /\ \E n \in DOMAIN _execution[cur][idx].ref_items :
               _execution[cur][idx].ref_items[n] = i}

\* C13: a commit command that is executed sets the index slot of every
\* file it references to unmodified and leaves the worktree slot as it
\* was; whether it succeeds or not, files it does not reference keep their
\* status pair.
C13_CommitMovesIndexOnly ==
    [][C13_CommitStep =>
          /\ pc'[cur] = "create" =>
                 \A i \in C13_Referenced :
                     /\ _execution'[cur][i].state_index = " "
                     /\ _execution'[cur][i].state_worktree
                            = _execution[cur][i].state_worktree
          /\ \A i \in DOMAIN _execution[cur] :
                 (IsItemFile(_execution[cur][i].cls)
                  /\ i \notin C13_Referenced)
                 => /\ _execution'[cur][i].state_index
                           = _execution[cur][i].state_index
                    /\ _execution'[cur][i].state_worktree
                           = _execution[cur][i].state_worktree]_vars

\* a commit command was executed: the file it references moved from
\* (added, unmodified) to (unmodified, unmodified) and a staged file it
\* does not reference is still staged
C13_Witness ==
    /\ pc[cur] \in {"create", "done"}
    /\ \E k \in 1..Len(created[cur]) :
           /\ _execution[cur][k].cls = "ItemCommit"
           /\ k < idx
           /\ \E i, j \in 1..(k - 1) :
                  /\ IsItemFile(_execution[cur][i].cls)
                  /\ IsItemFile(_execution[cur][j].cls)
                  /\ i \in C11_Referenced(cur, k)
                  /\ j \notin C11_Referenced(cur, k)
                  /\ _item_definitions[i].state = <<"A", " ">>
                  /\ _execution[cur][i].state_index = " "
                  /\ _execution[cur][i].state_worktree = " "
                  /\ _execution[cur][j].state_index = "A"

\* create() is called on the item at position idx of the build in progress
C14_CreateStep ==
    /\ pc[cur] = "create"
    /\ idx =< Len(_execution[cur])
    /\ created'[cur] = Append(created[cur], idx)

\* C14: when the tool reports the commit of a commit command or of a file
\* declared clean in more than one branch, the build fails with a creation
\* error and the step adds no branch to any repo; when it reports exactly
\* one branch, the step succeeds and the branch is in the branch set of
\* the repo the item belongs to.
C14_BranchOfCommit ==
    [][C14_CreateStep =>
          /\ found' > 0 =>
                 \/ _execution[cur][idx].cls = "ItemCommit"
                 \/ /\ IsItemFile(_execution[cur][idx].cls)
                    /\ _item_definitions[idx].state = <<" ", " ">>
          /\ found' > 1 =>
                 /\ pc'[cur] = "failed"
                 /\ err'[cur].kind = CreationError
                 /\ err'[cur].index = idx - 1
                 /\ \A i \in DOMAIN _execution[cur] :
                        _execution'[cur][i].branches
                            = _execution[cur][i].branches
          /\ (/\ found' = 1
              /\ IsItemRepo(_execution[cur][_execution[cur][idx].repo].cls))
             => /\ pc'[cur] = "create"
                /\ "master" \in
                       _execution'[cur][_execution[cur][idx].repo].branches
      ]_vars

\* a build ended because the commit of a file declared clean was reported
\* in two branches
C14_Witness ==
    /\ pc[cur] = "failed"
    /\ found = 2
    /\ err[cur].msg = "Unexpectedly found commit in multiple branches"
    /\ IsItemFile(_execution[cur][err[cur].index + 1].cls)
    /\ _execution[cur][_execution[cur][err[cur].index + 1].repo].branches
           = {}

\* create() of the drop command at position idx succeeds
C15_DropStep ==
    /\ pc[cur] = "create"
    /\ idx =< Len(_execution[cur])
    /\ _execution[cur][idx].cls = "ItemDropFile"
    /\ created'[cur] = Append(created[cur], idx)
    /\ pc'[cur] = "create"

\* the file that was checked last is annexed and its content was dropped
C15_CheckedDropped ==
    /\ check.kind = "file"
    /\ _execution[check.b][check.i].annexed
    /\ _execution[check.b][check.i].content_present = "False"

\* C15: a drop command that is executed sets the content availability of
\* every annexed file it references whose content was present to false,
\* and the integrity check of a file in that condition neither opens the
\* file for reading nor fails on its content.
C15_DroppedContentNotRead ==
    /\ [][C15_DropStep =>
             \A i \in C11_Referenced(cur, idx) :
                 (/\ IsItemFile(_execution[cur][i].cls)
                  /\ _execution[cur][i].annexed
                  /\ _execution[cur][i].content_present = "True")
                 => _execution'[cur][i].content_present = "False"]_vars
    /\ [](C15_CheckedDropped =>
             /\ ~check.opened
             /\ check.why \notin {"IOError", "content differs"})

\* a file whose content was dropped passed its integrity check unread,
\* with no content on disk
C15_Witness ==
    /\ C15_CheckedDropped
    /\ ~check.opened
    /\ check.why = ""
    /\ ReadFile(disk, _execution[check.b][check.i].path) = {}
    /\ _execution[check.b][check.i].commits # {}

\* the items found by following child sets from the items S, at most n
\* levels deep
RECURSIVE C16_Below(_, _, _)
C16_Below(b, S, n) ==
    IF n = 0 THEN S
    ELSE C16_Below(b, S \cup UNION {_execution[b][i].items : i \in S}, n - 1)

\* the repo and file items of instance b
C16_Indexed(b) ==
    {i \in DOMAIN _execution[b] :
        IsItemRepo(_execution[b][i].cls) \/ IsItemFile(_execution[b][i].cls)}

\* C16: after a build that succeeded, the roots are the repos without a
\* superproject, and the items reachable from them through child sets are
\* exactly the repo and file items of the build.
C16_NoOrphans ==
    \A b \in Builds :
        pc[b] = "done" =>
            /\ _roots[b] = {i \in C16_Indexed(b) :
                               /\ IsItemRepo(_execution[b][i].cls)
                               /\ _execution[b][i].super = 0}
            /\ C16_Below(b, _roots[b], Len(_execution[b])) = C16_Indexed(b)

\* a build with two root repos succeeded, with a file in the repo that is
\* not the instance's own
C16_Witness ==
    /\ pc[cur] = "done"
    /\ Cardinality(_roots[cur]) = 2
    /\ \E i \in C16_Indexed(cur) :
           /\ IsItemFile(_execution[cur][i].cls)
           /\ _execution[cur][i].repo # repo[cur]
           /\ i \in _execution[cur][_execution[cur][i].repo].items

\* the only item of instance b is an initialized annex ItemSelf that has no
\* commits
C17_AnnexSelfOnly(b) ==
    /\ Len(_execution[b]) = 1
    /\ _execution[b][1].cls = "ItemSelf"
    /\ _execution[b][1].annex
    /\ _execution[b][1].annex_init
    /\ _execution[b][1].commits = {}

\* instance b contains an annex repo cloned with annex_init=False
C17_UninitializedClone(b) ==
    \E i \in DOMAIN _execution[b] :
        /\ IsItemRepo(_execution[b][i].cls)
        /\ _execution[b][i].annex
        /\ _execution[b][i].src # ""
        /\ ~_execution[b][i].annex_init

\* C17: the integrity check of a fixture that was built succeeds without
\* signalling a mismatch, for the fixture whose only entry is an initialized
\* annex self repo without commits and for the fixture that contains an
\* annex repo cloned with annex initialization disabled.
C17_BuiltFixtureIntact ==
    (/\ check.kind = "fixture"
     /\ pc[check.b] = "done"
     /\ C17_AnnexSelfOnly(check.b) \/ C17_UninitializedClone(check.b))
    => check.why = ""

\* the two cases on their own
C17_AnnexSelfOnlyIntact ==
    (check.kind = "fixture" /\ C17_AnnexSelfOnly(check.b)) => check.why = ""
C17_UninitializedCloneIntact ==
    (check.kind = "fixture" /\ C17_UninitializedClone(check.b))
    => check.why = ""

\* C18: every definition error that ends a build carries the index of the
\* offending entry and the name of its kind.
C18_DefinitionErrorTagged ==
    \A b \in Builds :
        (pc[b] = "failed" /\ err[b].kind = DefinitionError) =>
            /\ err[b].index \in 0..(Len(_item_definitions) - 1)
            /\ err[b].item \in ItemClasses \cup {"NotAnItem"}

\* the case of a definition without an ItemSelf: resolution reached the end
\* of the list and the build failed there
C18_NoSelfTagged ==
    \A b \in Builds :
        (/\ pc[b] = "failed"
         /\ err[b].kind = DefinitionError
         /\ repo[b] = 0
         /\ Len(_execution[b]) = Len(_item_definitions)) =>
            /\ err[b].index \in 0..(Len(_item_definitions) - 1)
            /\ err[b].item \in ItemClasses \cup {"NotAnItem"}

\* the loop is about to resolve a repo entry
C19_RepoEntry ==
    /\ pc[cur] = "resolve"
    /\ idx =< Len(_item_definitions)
    /\ IsItemRepo(_item_definitions[idx].cls)

\* the entry the loop is at asks for an annex property without annex
C19_AnnexAsked ==
    LET e == _item_definitions[idx]
    IN  /\ ~e.annex
        /\ \/ e.annex_version # 0
           \/ e.annex_direct = "True"
           \/ e.annex_init = "True"

C20_Version ==
    IF _item_definitions[idx].annex_version = 0 THEN cfg.version
    ELSE _item_definitions[idx].annex_version
C20_Direct ==
    IF _item_definitions[idx].annex_direct = "None" THEN cfg.direct
    ELSE _item_definitions[idx].annex_direct = "True"

\* C20: no constructed Repo item is in direct mode with an annex version of
\* 6 or greater; a Repo entry for which the entry and the configuration
\* combine the two is rejected with a definition error.
C20_NoDirectModeWithV6 ==
    /\ [](\A b \in Builds : \A i \in DOMAIN _execution[b] :
            IsItemRepo(_execution[b][i].cls) =>
                ~(/\ _execution[b][i].annex_direct
                  /\ _execution[b][i].annex_version >= 6))
    /\ [][(C19_RepoEntry /\ C20_Version >= 6 /\ C20_Direct) =>
             /\ pc'[cur] = "failed"
             /\ err'[cur].kind = DefinitionError
             /\ err'[cur].index = idx - 1
             /\ _execution'[cur] = _execution[cur]]_vars

\* under the configuration of version 6 with direct mode a repo entry that
\* names neither was rejected
C20_Witness ==
    /\ cfg.version >= 6 /\ cfg.direct
    /\ pc[cur] = "failed"
    /\ err[cur].msg = "Invalid datalad configuration"
    /\ err[cur].index = 0
    /\ _item_definitions[1].annex_version = 0
    /\ _item_definitions[1].annex_direct = "None"

\* C21: a constructed annex Repo item whose annex is not initialized has a
\* clone source; an annex Repo entry with annex_init False and no clone
\* source is rejected with a definition error.
C21_UninitializedAnnexIsClone ==
    /\ [](\A b \in Builds : \A i \in DOMAIN _execution[b] :
            (/\ IsItemRepo(_execution[b][i].cls)
             /\ _execution[b][i].annex
             /\ ~_execution[b][i].annex_init) => _execution[b][i].src # "")
    /\ [][(/\ C19_RepoEntry
           /\ _item_definitions[idx].annex
           /\ _item_definitions[idx].annex_init = "False"
           /\ _item_definitions[idx].src = "") =>
             /\ pc'[cur] = "failed"
             /\ err'[cur].kind = DefinitionError
             /\ err'[cur].index = idx - 1
             /\ _execution'[cur] = _execution[cur]]_vars

\* an annex repo that is not initialized was constructed from an entry with
\* a clone source
C21_Witness ==
    \E i \in DOMAIN _execution[cur] :
        /\ IsItemRepo(_execution[cur][i].cls)
        /\ _execution[cur][i].annex
        /\ ~_execution[cur][i].annex_init
        /\ _execution[cur][i].src = "url"

\* C22: a Repo entry that disables annex initialization and specifies an
\* annex version or direct mode is rejected with a definition error, and
\* every constructed Repo item that has a stored annex version or stored
\* direct mode has its annex initialized.
C22_VersionOrDirectImpliesInit ==
    /\ [](\A b \in Builds : \A i \in DOMAIN _execution[b] :
            (/\ IsItemRepo(_execution[b][i].cls)
             /\ \/ _execution[b][i].annex_version # 0
                \/ _execution[b][i].annex_direct) =>
                _execution[b][i].annex_init)
    /\ [][(/\ C19_RepoEntry
           /\ _item_definitions[idx].annex_init = "False"
           /\ \/ _item_definitions[idx].annex_version # 0
              \/ _item_definitions[idx].annex_direct = "True") =>
             /\ pc'[cur] = "failed"
             /\ err'[cur].kind = DefinitionError
             /\ err'[cur].index = idx - 1
             /\ _execution'[cur] = _execution[cur]]_vars

\* the rejection half of C22 on its own
C22_Rejected ==
    [][(/\ C19_RepoEntry
        /\ _item_definitions[idx].annex_init = "False"
        /\ \/ _item_definitions[idx].annex_version # 0
           \/ _item_definitions[idx].annex_direct = "True") =>
          /\ pc'[cur] = "failed"
          /\ err'[cur].kind = DefinitionError]_vars

\* the loop is about to resolve a file entry that names its repo
C23_FileEntry ==
    /\ pc[cur] = "resolve"
    /\ idx =< Len(_item_definitions)
    /\ _item_definitions[idx].isdict
    /\ IsItemFile(_item_definitions[idx].cls)
    /\ _item_definitions[idx].repo # <<>>

\* the entry the loop is at is rejected with a definition error, during
\* resolution: nothing was constructed for it and nothing was written
C23_Rejected ==
    /\ pc'[cur] = "failed"
    /\ err'[cur].kind = DefinitionError
    /\ err'[cur].index = idx - 1
    /\ _execution'[cur] = _execution[cur]
    /\ disk' = disk

\* the entry the loop is at gives content (an info file's content is
\* generated when none is given)
C23_Content ==
    \/ _item_definitions[idx].content # ""
    \/ _item_definitions[idx].cls = "ItemInfoFile"

C24_MessageNeedsCleanPair ==
    [][(/\ C23_FileEntry
        /\ _item_definitions[idx].commit_msg # ""
        /\ _item_definitions[idx].state # <<UNMODIFIED, UNMODIFIED>>) =>
          C23_Rejected]_vars

\* a file entry that is valid but for its commit message was rejected, and
\* so was not taken for a staged file
C24_Witness ==
    /\ pc[cur] = "failed"
    /\ err[cur].msg = "commit_msg but state doesn't suggest to commit"
    /\ err[cur].index = 1
    /\ _item_definitions[2].state = Staged
    /\ _item_definitions[2].content = "123"

\* C26: a File entry that is not annexed and specifies a source-URL, a lock
\* flag (True or False) or an annex key is rejected with a definition error
\* during resolution; every constructed file that is not annexed has no
\* source-URL, no lock flag and no key.
C26_AnnexOnlyParameters ==
    /\ [][(/\ C23_FileEntry
           /\ ~_item_definitions[idx].annexed
           /\ \/ _item_definitions[idx].src # ""
              \/ _item_definitions[idx].locked # "None"
              \/ _item_definitions[idx].key # "") =>
             C23_Rejected]_vars
    /\ [](\A b \in Builds : \A i \in DOMAIN _execution[b] :
            (IsItemFile(_execution[b][i].cls) /\ ~_execution[b][i].annexed)
            => /\ _execution[b][i].src = ""
               /\ _execution[b][i].locked = "None"
               /\ _execution[b][i].key = "")

\* a file entry that is not annexed and gives a lock flag of False, and
\* nothing else that is invalid, was rejected
C26_Witness ==
    /\ pc[cur] = "failed"
    /\ err[cur].msg = "invalid when annexed is False"
    /\ err[cur].index = 1
    /\ _item_definitions[2].locked = "False"
    /\ _item_definitions[2].src = ""
    /\ _item_definitions[2].key = ""

\* C27: a File entry that gives a source-URL is accepted only if its
\* declared status pair is (added, unmodified); with any other pair it is
\* rejected with a definition error during resolution.
C27_SourceNeedsAddedPair ==
    [][(/\ C23_FileEntry
        /\ _item_definitions[idx].src # ""
        /\ _item_definitions[idx].state # <<ADDED, UNMODIFIED>>) =>
          C23_Rejected]_vars

\* an annexed file entry with a source-URL and no content was rejected for
\* its status pair (untracked, untracked)
C27_Witness ==
    /\ pc[cur] = "failed"
    /\ err[cur].msg = "src but state doesn't suggest to annex-addurl"
    /\ err[cur].index = 1
    /\ _item_definitions[2].annexed
    /\ _item_definitions[2].state = Untracked

\* the entry the loop is at is a plain file declared (unmodified,
\* unmodified) without a commit message
C25_CleanWithoutMessage ==
    /\ C23_FileEntry
    /\ _item_definitions[idx].cls = "ItemFile"
    /\ _item_definitions[idx].state = <<UNMODIFIED, UNMODIFIED>>
    /\ _item_definitions[idx].commit_msg = ""

C25_CreateStep ==
    /\ C14_CreateStep
    /\ _execution[cur][idx].cls = "ItemFile"
    /\ is_clean(_execution[cur][idx])
    /\ _execution[cur][idx].commit_msg = ""

C28_CommandEntry ==
    /\ pc[cur] = "resolve"
    /\ idx =< Len(_item_definitions)
    /\ _item_definitions[idx].isdict
    /\ IsItemCommand(_item_definitions[idx].cls)

\* the position of the repo item declared under path key p (0: there is
\* none)
C28_RepoAt(p) ==
    IF p \in DOMAIN _items[cur]
       /\ IsItemRepo(_execution[cur][_items[cur][p]].cls)
    THEN _items[cur][p] ELSE 0

\* the entry the loop is at was accepted: its object is the last of the
\* execution list
C28_Accepted == Len(_execution'[cur]) = Len(_execution[cur]) + 1

\* C28: a Command entry with neither a working directory nor an owning repo
\* is rejected with a definition error at its index; a command constructed
\* from an entry with only a working directory that is the declared path of
\* a repo built before has that repo as its owning repo; a command
\* constructed from an entry with only an owning repo has that repo's path
\* as its working directory.
C28_CwdOrRepo ==
    [][C28_CommandEntry =>
          LET e == _item_definitions[idx]
              new == _execution'[cur][Len(_execution'[cur])]
          IN  /\ (e.cwd = <<>> /\ e.repo = <<>>) => C23_Rejected
              /\ (/\ e.cwd # <<>> /\ e.repo = <<>>
                  /\ C28_RepoAt(e.cwd) # 0
                  /\ C28_Accepted)
                 => new.repo = C28_RepoAt(e.cwd)
              /\ (/\ e.cwd = <<>> /\ e.repo # <<>>
                  /\ C28_RepoAt(e.repo[1].p) # 0
                  /\ C28_Accepted)
                 => /\ new.repo = C28_RepoAt(e.repo[1].p)
                    /\ new.cwd = _execution[cur][new.repo].path
                    /\ new.cwd # <<>>]_vars

\* a build resolved a commit command given only its repo and built it: the
\* command's working directory is the path of the repo
C28_Witness ==
    /\ pc[cur] = "done"
    /\ \E i \in DOMAIN _execution[cur] :
          /\ _execution[cur][i].cls = "ItemCommit"
          /\ _item_definitions[i].cwd = <<>>
          /\ _execution[cur][i].repo = repo[cur]
          /\ _execution[cur][i].cwd = _execution[cur][repo[cur]].path
          /\ _execution[cur][i].cwd # <<>>

\* the target of the repo or file item at position i of the instance in
\* progress exists: a file's path exists; a repo's path is a file or a
\* directory that holds something
C29_Occupied(i) ==
    LET o == _execution[cur][i]
    IN  IF IsItemFile(o.cls) THEN o.path \in disk.dirs \cup disk.files
        ELSE \/ o.path \in disk.files
             \/ /\ o.path \in disk.dirs
                /\ \/ o.path \in disk.gits
                   \/ \E q \in disk.dirs \cup disk.files :
                         /\ Len(q) > Len(o.path)
                         /\ SubSeq(q, 1, Len(o.path)) = o.path

\* what a creation error for an occupied target says
C29_Messages == {"already exists", "not a directory", "not empty"}

\* nothing was run and nothing was written
C29_Untouched ==
    /\ disk' = disk
    /\ sha' = sha
    /\ _execution' = _execution

\* a test has called create() of an item of the fixture it built again
C29_AgainStep ==
    /\ pc[cur] = "done"
    /\ cur' = cur
    /\ check'.kind = "create"

\* C29: materializing a File whose path exists, or a Repo whose path is a
\* file or a directory that is not empty, fails with a creation error
\* before any command is run for the item; materializing a File or Repo of
\* a fixture that was built a second time fails in this way.
C29_OccupiedTargetFails ==
    /\ [][(/\ C14_CreateStep
           /\ ~IsItemCommand(_execution[cur][idx].cls)
           /\ C29_Occupied(idx)) =>
             /\ pc'[cur] = "failed"
             /\ err'[cur].kind = CreationError
             /\ err'[cur].index = idx - 1
             /\ err'[cur].msg \in C29_Messages
             /\ C29_Untouched]_vars
    /\ [][C29_AgainStep =>
             /\ check'.raised = CreationError
             /\ check'.why \in C29_Messages
             /\ C29_Untouched]_vars

\* a file of a fixture that was built was materialized again and the
\* call raised a creation error
C29_Witness ==
    /\ check.kind = "create"
    /\ check.b = cur
    /\ IsItemFile(_execution[cur][check.i].cls)
    /\ check.raised = CreationError
    /\ check.why = "already exists"

\* the status pair of the file at position i of instance b changes
C30_PairChanges(b, i) ==
    \/ _execution'[b][i].state_index # _execution[b][i].state_index
    \/ _execution'[b][i].state_worktree # _execution[b][i].state_worktree

\* the commit list or the content availability of the file at position i of
\* instance b changes
C30_RecordChanges(b, i) ==
    \/ _execution'[b][i].commits # _execution[b][i].commits
    \/ _execution'[b][i].content_present # _execution[b][i].content_present

\* the file items instance b has constructed
C30_Files(b) ==
    {i \in DOMAIN _execution[b] : IsItemFile(_execution[b][i].cls)}

\* create() is called on a command item of the instance in progress
C30_CommandStep == C14_CreateStep /\ IsItemCommand(_execution[cur][idx].cls)

\* C30: the status pair, the commit list and the content availability of a
\* file are changed only by the execution of Command items: materializing a
\* Repo or File item changes none of them, and neither does resolution.
C30_OnlyCommandsMutate ==
    [][\A b \in Builds : \A i \in C30_Files(b) :
          (C30_PairChanges(b, i) \/ C30_RecordChanges(b, i)) =>
              (b = cur /\ C30_CommandStep)]_vars

\* C30 as amended: the status pair of a file is changed only by the
\* execution of Command items; its commit list and content availability
\* are changed only by the execution of Command items and by the file's own
\* materialization.  Materializing a Repo or another File changes none of
\* them, and neither does resolution.
C30_CommandsAndOwnCreateMutate ==
    [][\A b \in Builds : \A i \in C30_Files(b) :
          /\ C30_PairChanges(b, i) => (b = cur /\ C30_CommandStep)
          /\ C30_RecordChanges(b, i) =>
                 /\ b = cur
                 /\ C14_CreateStep
                 /\ IsItemCommand(_execution[cur][idx].cls) \/ idx = i]_vars

\* a build succeeded in which a file's own materialization made its content
\* available and a drop command made it unavailable later
C30_Witness ==
    /\ pc[cur] = "done"
    /\ \E i \in C30_Files(cur) :
          /\ _execution[cur][i].annexed
          /\ _execution[cur][i].content_present = "False"
          /\ _execution[cur][i].commits # {}
          /\ _execution[cur][i].state_index = UNMODIFIED
          /\ _item_definitions[i].state = Staged

\* the entry the loop is at is a file entry that names no repo, or a drop
\* command
C31_Entry ==
    /\ pc[cur] = "resolve"
    /\ idx =< Len(_item_definitions)
    /\ _item_definitions[idx].isdict
    /\ \/ /\ IsItemFile(_item_definitions[idx].cls)
          /\ _item_definitions[idx].repo = <<>>
       \/ _item_definitions[idx].cls = "ItemDropFile"

\* C31: a File entry that omits its owning repo, and a drop command whose
\* owning repo is not an annex, are rejected with a definition error that
\* carries the entry's index, and with no other kind of failure.
C31_RejectedAsDefinitionError ==
    [][(C31_Entry /\ pc'[cur] = "failed") =>
          /\ err'[cur].kind = DefinitionError
          /\ err'[cur].index = idx - 1]_vars

\* the two cases on their own
C31_FileWithoutRepo ==
    [][(/\ C31_Entry
        /\ IsItemFile(_item_definitions[idx].cls)
        /\ pc'[cur] = "failed") =>
          err'[cur].kind = DefinitionError]_vars
C31_DropWithoutAnnex ==
    [][(/\ C31_Entry
        /\ _item_definitions[idx].cls = "ItemDropFile"
        /\ pc'[cur] = "failed") =>
          err'[cur].kind = DefinitionError]_vars

\* the (name, url) pairs of the fetch rows that `git remote -v` lists for
\* the repo at path p
C32_FetchRows(p) == {<<x[2], x[3]>> : x \in {y \in disk.remotes : y[1] = p}}

\* C32: the integrity check of a repo compares the declared remote set
\* with the (name, url) pairs of the fetch rows of the tool's remote
\* listing: for every repo of a fixture that was built, a clone included,
\* the comparison succeeds if the two sets are equal and fails only if they
\* differ.
C32_RemotesCompared ==
    \A b \in Builds :
        pc[b] = "done" =>
            \A i \in DOMAIN _execution[b] :
                IsItemRepo(_execution[b][i].cls) =>
                    (RemotesAssertion(_execution[b][i], disk) = ""
                     <=> _execution[b][i].remotes
                             = C32_FetchRows(_execution[b][i].path))

\* the check of a fixture whose only repo is a clone does not end in the
\* comparison of the remotes
C32_CloneCheckPasses ==
    (/\ check.kind = "fixture"
     /\ _execution[check.b][1].src # ""
     /\ ~_execution[check.b][1].annex)
    => check.why = ""

\* C33: after a build that succeeded, a repo whose recorded branch set is
\* not empty has a recorded commit set that is not empty.
C33_BranchesImplyCommits ==
    \A b \in Builds :
        pc[b] = "done" =>
            \A i \in DOMAIN _execution[b] :
                (IsItemRepo(_execution[b][i].cls)
                 /\ _execution[b][i].branches # {})
                => _execution[b][i].commits # {}

\* every command of instance b that has an owning repo has a repo item as
\* its owning repo
C34_CommandsOwnedByRepos(b) ==
    \A k \in DOMAIN _execution[b] :
        (IsItemCommand(_execution[b][k].cls) /\ _execution[b][k].repo # 0)
        => IsItemRepo(_execution[b][_execution[b][k].repo].cls)

\* C34: during and after a build, every commit of a file's commit list is
\* in the commit set of the file's owning repo, and a file is in the child
\* set of a repo only if that repo is the file's owning repo; also when the
\* owning repo of a commit command is not the owning repo of a file it
\* references.
C34_FileBelongsToOwner ==
    \A b \in Builds : \A i \in DOMAIN _execution[b] :
        (/\ C34_CommandsOwnedByRepos(b)
         /\ IsItemFile(_execution[b][i].cls)
         /\ IsItemRepo(_execution[b][_execution[b][i].repo].cls)) =>
            /\ _execution[b][i].commits
                   \subseteq _execution[b][_execution[b][i].repo].commits
            /\ \A r \in DOMAIN _execution[b] :
                   (IsItemRepo(_execution[b][r].cls)
                    /\ i \in _execution[b][r].items)
                   => _execution[b][i].repo = r

\* C35: after a build that succeeded, the commit list of a file is empty
\* exactly when the index slot of its status pair is untracked or added.
C35_CommitsIffTracked ==
    \A b \in Builds :
        pc[b] = "done" =>
            \A i \in DOMAIN _execution[b] :
                IsItemFile(_execution[b][i].cls) =>
                    (_execution[b][i].commits = {}
                     <=> _execution[b][i].state_index \in {UNTRACKED, ADDED})

\* a build succeeded with a staged file that no commit covers and with a
\* file declared staged that a commit command committed
C35_Witness ==
    \E b \in Builds :
        /\ pc[b] = "done"
        /\ \E i, j \in DOMAIN _execution[b] :
            /\ IsItemFile(_execution[b][i].cls)
            /\ _execution[b][i].state_index = ADDED
            /\ _execution[b][i].commits = {}
            /\ IsItemFile(_execution[b][j].cls)
            /\ _item_definitions[j].state = Staged
            /\ _execution[b][j].state_index = UNMODIFIED
            /\ _execution[b][j].commits # {}

\* the commands that add a file
C36_Adds == {"git add", "annex add", "annex addurl"}

\* the sequences of commands that keep the order add, unlock, commit
C36_Ordered ==
    {<<>>} \cup {<<a>> : a \in C36_Adds}
           \cup {<<a, "annex unlock">> : a \in C36_Adds}
           \cup {<<a, "commit">> : a \in C36_Adds}
           \cup {<<a, "annex unlock", "commit">> : a \in C36_Adds}

\* create() is called on a file item
C36_FileStep == C14_CreateStep /\ IsItemFile(_execution[cur][idx].cls)

\* C36: the create() of a file issues its commands in the order add, unlock,
\* commit, whether it succeeds or fails; an untracked file issues none; when
\* the create() succeeds, a staged file issues an add and no commit, a clean
\* file issues an add first and a commit last, and an annexed file declared
\* unlocked that is not untracked issues the unlock right after the add.
C36_AddUnlockCommit ==
    [][C36_FileStep =>
          LET f == _execution[cur][idx]
              ok == err'[cur] = NoErr
              cmds == {issued'[n] : n \in DOMAIN issued'}
          IN  /\ issued' \in C36_Ordered
              /\ is_untracked(f) => issued' = <<>>
              /\ (ok /\ f.state_index = ADDED /\ f.state_worktree = UNMODIFIED)
                 => (/\ issued' # <<>>
                     /\ issued'[1] = add_cmd(f)
                     /\ "commit" \notin cmds)
              /\ (ok /\ is_clean(f))
                 => (/\ Len(issued') >= 2
                     /\ issued'[1] = add_cmd(f)
                     /\ issued'[Len(issued')] = "commit")
              /\ (ok /\ f.annexed /\ is_unlocked(f) = "True"
                     /\ ~is_untracked(f))
                 => (Len(issued') >= 2 /\ issued'[2] = "annex unlock")
              /\ "annex unlock" \in cmds
                 => (f.annexed /\ is_unlocked(f) = "True")]_vars

\* the build of an annexed file declared clean and unlocked succeeded after
\* its create() issued an add, the unlock and the commit
C36_Witness ==
    /\ pc[cur] = "done"
    /\ issued = <<"annex add", "annex unlock", "commit">>
    /\ \E i \in DOMAIN _execution[cur] :
          /\ _execution[cur][i].cls = "ItemFile"
          /\ _execution[cur][i].annexed
          /\ _execution[cur][i].locked = "False"
          /\ _execution[cur][i].commits # {}
    /\ check = NoCheck

\* C37: after a build that succeeded, a file that is not annexed has no
\* content availability, no annex key and no lock state, whatever commands
\* referenced it.
C37_PlainFileHasNoAnnexFields ==
    \A b \in Builds :
        pc[b] = "done" =>
            \A i \in DOMAIN _execution[b] :
                LET f == _execution[b][i]
                IN  (IsItemFile(f.cls) /\ ~f.annexed) =>
                        /\ f.content_present = "None"
                        /\ f.key = ""
                        /\ is_locked(f) = "None"
                        /\ is_unlocked(f) = "None"

\* positions of the execution list of instance b that the path index holds
C38_IndexedPositions(b) == {_items[b][k] : k \in DOMAIN _items[b]}

\* C38: once the resolution of an instance succeeded, its execution list is
\* as long as the definition list, and its path index holds exactly the
\* items of the execution list that are not commands, each under the
\* relative path it lies at below the instance's directory.
C38_IndexHoldsReposAndFiles ==
    \A b \in Builds :
        ResolutionPassed(b) =>
            /\ Len(_execution[b]) = Len(_item_definitions)
            /\ C38_IndexedPositions(b)
                   = {i \in DOMAIN _execution[b] :
                          ~IsItemCommand(_execution[b][i].cls)}
            /\ \A k \in DOMAIN _items[b] :
                   /\ ~IsAbs(k)
                   /\ _execution[b][_items[b][k]].path
                          = normpath(opj(RootDir(b), k))

\* C39: no step of a resolution or of a build changes the definition list
\* of the class: every entry keeps its kind and its parameters, with
\* relative paths, references given as paths and no runner bound.
C39_DefinitionsUnchanged ==
    [][_item_definitions' = _item_definitions]_vars

\* a test calls get_cached_dataset
C40_CallStep == tests_cache'.calls = tests_cache.calls + 1

\* the call made in this step clones only if before it nothing was installed
\* at its cache path or the dataset there is behind the repository it was
\* cloned from, and it removes what was at the path exactly when it clones
\* over an installed dataset
C40_ClonesWhenMissingOrStale ==
    LET c == tests_cache
        path == tests_cache'.last.path
    IN  /\ tests_cache'.last.cloned =>
              \/ c.installed[path] = NotInstalled
              \/ c.installed[path].rev # c.origin[c.installed[path].url]
        /\ tests_cache'.last.removed
               <=> (tests_cache'.last.cloned
                    /\ c.installed[path] # NotInstalled)

\* the call made in this step follows a call with the same url and name,
\* and no repository has changed since that call
C40_RepeatedCall ==
    /\ C40_CallStep
    /\ tests_cache.calls > 0
    /\ tests_cache'.last.url = tests_cache.last.url
    /\ tests_cache'.last.dataset_name = tests_cache.last.dataset_name
    /\ tests_cache.origin = tests_cache.last.origin

\* the cache path get_cached_dataset uses for a url and a name
C40_PathOf(url, dataset_name) ==
    IF dataset_name = "" THEN default_destpath(url) ELSE dataset_name

\* C40: get_cached_dataset clones only when nothing is installed at the
\* cache path or the fetch reports something that is not up to date, and
\* then removes the cached copy first; a call that follows a call with the
\* same url and name while the origin did not change does not clone and
\* returns the dataset at the cache path of that url and name.
C40_RepeatedCallReturnsCached ==
    [][(C40_CallStep /\ tests_cache'.last.raised # "ValueError"
            => C40_ClonesWhenMissingOrStale)
       /\ (C40_RepeatedCall =>
              /\ ~tests_cache'.last.cloned
              /\ tests_cache'.last.raised = ""
              /\ tests_cache'.last.ds
                     = C40_PathOf(tests_cache.last.url,
                                  tests_cache.last.dataset_name))]_vars

\* C40 as amended: get_cached_dataset clones only when nothing is installed
\* at the cache path or the fetch reports something that is not up to date,
\* and then removes the cached copy first; a call that follows a call with
\* the same url and name while the origin did not change does not clone, and
\* unless it raises (ValueError when no cache is configured, AssertionError
\* when the version asked for is no commit of the dataset) it returns the
\* dataset at the cache path of that url and name.
C40_RepeatedCallReturnsCachedOrRaises ==
    [][(C40_CallStep /\ tests_cache'.last.raised # "ValueError"
            => C40_ClonesWhenMissingOrStale)
       /\ (C40_RepeatedCall =>
              /\ ~tests_cache'.last.cloned
              /\ tests_cache'.last.raised
                     \in {"", "ValueError", "AssertionError"}
              /\ tests_cache'.last.raised = "ValueError"
                     <=> ~tests_cache.DATALAD_TESTS_CACHE
              /\ tests_cache'.last.raised = "" =>
                     tests_cache'.last.ds
                         = C40_PathOf(tests_cache.last.url,
                                      tests_cache.last.dataset_name))]_vars

\* a call cloned a dataset into the cache, and the call after it, with the
\* same url and name and the origin as it was, returned the dataset at the
\* same path without cloning
C40_Witness ==
    /\ tests_cache.calls >= 2
    /\ tests_cache.before.cloned
    /\ tests_cache.before.ds # ""
    /\ tests_cache.last.url = tests_cache.before.url
    /\ tests_cache.last.dataset_name = tests_cache.before.dataset_name
    /\ tests_cache.last.origin = tests_cache.before.origin
    /\ ~tests_cache.last.cloned
    /\ tests_cache.last.raised = ""
    /\ tests_cache.last.ds = tests_cache.before.ds

====
